---- MODULE Spec2Model ----
(***************************************************************************)
(* Verification model of the academic paper summarizer:                    *)
(*   - the hybrid chunker   (app/services/chunking_service.py)             *)
(*   - the similarity ranker (app/services/retrieval_service.py)           *)
(*   - the question/answer cache gate (app/pages/2_Ask_Questions.py)       *)
(* Text is a sequence of one-character strings, so that the regular         *)
(* expressions, strip(), split() and join() of the code are modelled by     *)
(* what they do to characters.                                              *)
(***************************************************************************)
EXTENDS Integers, Sequences, FiniteSets, TLC

VARIABLES
    \* ---- chunker (ChunkingService.chunk_text) ----
    text,           \* argument text
    chunk_size,     \* argument chunk_size (0 stands for None / 0: "use the setting")
    chunk_overlap,  \* argument chunk_overlap (0 stands for None / 0)
    chunks,         \* returned list of ChunkData
    cpc,            \* "idle" | "called" | "returned"
    \* ---- ranker (RetrievalService._vector_search) ----
    rows,           \* chunks JOIN embeddings JOIN papers, in storage order
    query_vector,   \* argument query_vector
    top_k,          \* argument top_k
    scope,          \* argument paper_id ("" stands for None)
    results,        \* returned list of RetrievedChunk
    rpc,            \* "idle" | "called" | "returned"
    \* ---- question/answer cache gate (answer_question) ----
    query_cache,    \* rows of table query_cache, in insertion order
    pc,             \* per session: position inside answer_question
    question,       \* per session: argument question
    retrieved,      \* per session: retrieved_chunks
    answer,         \* per session: generated Answer
    rank_calls,     \* per session: _vector_search invocations of the current call
    gen_calls,      \* per session: generation invocations of the current call
    comp_calls,     \* per session: compress_context invocations of the current call
    compressed_context, \* per session: what compress_context returned
    gen_context,    \* per session: the context generation was given
    trace,          \* per session: collaborator calls of the current call, in order
    last,           \* record of the call that finished most recently
    prev,           \* record of the call that finished before `last`
    calls,          \* number of answer_question calls started
    alone,          \* per session: no other session was inside answer_question
                    \* at any moment of the current call
    \* ---- embedding service (EmbeddingService.embed_text / embed_batch) ----
    texts,          \* argument texts (embed_text(t) is embed_batch([t])[0])
    entry,          \* "embed_text" | "embed_batch" | "embed_query": the method called
    cleaned_texts,  \* local cleaned_texts
    all_embeddings, \* local all_embeddings
    batch_i,        \* loop variable i: 0-based start of the current batch
    seq_item,       \* 1-based position in the batch of the sequential fallback
    attempt,        \* loop variable attempt of _embed_with_retry
    embed_result,   \* the value the method returned
    epc,            \* "idle" | "called" | "batch" | "seq" | "query" | "returned" | "raised"
    failed_batches, \* starts of the batches whose batch call raised
    exhausted,      \* 1-based positions whose _embed_with_retry raised
    api_calls,      \* genai.embed_content calls of the retry loop that is running
    sleeps,         \* the delays that retry loop has slept, in order
    retry_out,      \* the retry loop (or embed_query) that ended last
    \* ---- upload (process_pdf of pages/1_Upload_Papers.py) ----
    db,             \* committed rows: [papers, chunks, embeddings]
    tx,             \* per upload: rows flushed or pending in its open transaction
    upc,            \* per upload: position inside process_pdf
    up_chunks,      \* per upload: local chunks
    up_embeddings,  \* per upload: local embeddings
    up_k,           \* per upload: pairs of zip(chunks, embeddings) already added
    seen,           \* what the last statement of a concurrent reader saw
    \* ---- compression and generation services, called on their own ----
    svc,            \* "compress_context" | "answer_question" | "generate_summary"
    svc_chunks,     \* compress_context: argument chunks
    svc_response,   \* compress_context: what the ScaleDown call meets
    svc_chunk_ids,  \* answer_question: argument chunk_ids
    svc_model,      \* generation: what generate_content / response.text do
    svc_out,        \* the outcome of the call
    spc,            \* "idle" | "called" | "done"
    \* ---- library: deletion of papers and the summary cache ----
    papers,         \* ids of the rows of table papers
    summaries,      \* rows of table summaries, in insertion order
    deleted,        \* ids of the papers a deletion has removed
    latest,         \* per (paper, summary type): content of the last save that went through
    lib_ops,        \* deletions, saves and summary requests made so far
    lib_last        \* record of the last of them

chunkVars == <<text, chunk_size, chunk_overlap, chunks, cpc>>
rankVars  == <<rows, query_vector, top_k, scope, results, rpc>>
cacheVars == <<query_cache, pc, question, retrieved, answer,
               rank_calls, gen_calls, comp_calls, compressed_context, gen_context, trace,
               last, prev, calls, alone>>
embedVars == <<texts, entry, cleaned_texts, all_embeddings, batch_i, seq_item,
               attempt, embed_result, epc, failed_batches, exhausted,
               api_calls, sleeps, retry_out>>
\* the components beside chunker, ranker and cache gate
uploadVars == <<db, tx, upc, up_chunks, up_embeddings, up_k, seen>>
svcVars == <<svc, svc_chunks, svc_response, svc_chunk_ids, svc_model, svc_out, spc>>
libVars == <<papers, summaries, deleted, latest, lib_ops, lib_last>>
otherVars == <<embedVars, uploadVars, svcVars, libVars>>
vars == <<chunkVars, rankVars, cacheVars, otherVars>>
\* what a step of answer_question leaves alone besides the tables
frame == <<chunkVars, query_vector, top_k, scope, results, rpc, otherVars>>
\* what a step of the embedding service leaves alone
embedFrame == <<chunkVars, rankVars, cacheVars, uploadVars, svcVars, libVars>>
\* what a step of process_pdf or of a reader leaves alone
uploadFrame == <<chunkVars, rankVars, cacheVars, embedVars, svcVars, libVars>>
\* what a call of a service on its own leaves alone
svcFrame == <<chunkVars, rankVars, cacheVars, embedVars, uploadVars, libVars>>
\* what a deletion or a summary operation leaves alone besides the tables
libFrame == <<chunkVars, query_vector, top_k, scope, results, rpc,
              pc, question, retrieved, answer, rank_calls, gen_calls, comp_calls,
              compressed_context, gen_context, trace, last, prev, calls, alone,
              embedVars, uploadVars, svcVars>>

----------------------------------------------------------------------------
(* Characters and Python string primitives                                  *)

UpperSeq == <<"A","B","C","D","E","F","G","H","I","J","K","L","M",
              "N","O","P","Q","R","S","T","U","V","W","X","Y","Z">>
LowerSeq == <<"a","b","c","d","e","f","g","h","i","j","k","l","m",
              "n","o","p","q","r","s","t","u","v","w","x","y","z">>
UpperSet == {UpperSeq[i] : i \in 1..26}
LowerSet == {LowerSeq[i] : i \in 1..26}
DigitSet == {"0","1","2","3","4","5","6","7","8","9"}

IsUpper(c)  == c \in UpperSet
IsLetter(c) == c \in UpperSet \cup LowerSet
IsDigit(c)  == c \in DigitSet
IsSpace(c)  == c \in {" ", "\n"}
IsNewline(c) == c = "\n"
IsPunct(c)  == ~IsLetter(c) /\ ~IsDigit(c) /\ ~IsSpace(c)

\* re.IGNORECASE compares letters by their lower-case form
ToLower(c) == IF c \in UpperSet
              THEN LowerSeq[CHOOSE i \in 1..26 : UpperSeq[i] = c]
              ELSE c

\* F applied to the value of v: v is evaluated once, as an assignment
\* "x = v" is, however often F uses x
With(v, F(_)) == CHOOSE r \in {F(x) : x \in {v}} : TRUE

MinOf(S) == CHOOSE x \in S : \A y \in S : x <= y
MaxOf(S) == CHOOSE x \in S : \A y \in S : x >= y

\* Positions are 1-based; position p lies before character p, so a match
\* [i, e) covers characters i .. e-1 and Len(t)+1 is the end of the text.

\* first position >= i whose character is not in class P (a greedy P* run)
RunEnd(t, i, P(_)) ==
    LET stop == {j \in i..Len(t) : ~P(t[j])}
    IN  IF stop = {} THEN Len(t) + 1 ELSE MinOf(stop)

\* str.strip()
LStrip(t) == SubSeq(t, RunEnd(t, 1, IsSpace), Len(t))
RStrip(t) ==
    LET keep == {j \in 1..Len(t) : ~IsSpace(t[j])}
    IN  IF keep = {} THEN <<>> ELSE SubSeq(t, 1, MaxOf(keep))
strip(t) == RStrip(LStrip(t))

\* " ".join(parts)
RECURSIVE join(_)
join(parts) ==
    IF parts = <<>> THEN <<>>
    ELSE IF Len(parts) = 1 THEN parts[1]
    ELSE parts[1] \o <<" ">> \o join(Tail(parts))

\* str.split(): the maximal runs of non-whitespace characters
NotSpace(c) == ~IsSpace(c)
RECURSIVE splitFrom(_, _)
splitFrom(t, i) ==
    With(RunEnd(t, i, IsSpace), LAMBDA s :
        IF s > Len(t) THEN <<>>
        ELSE With(RunEnd(t, s, NotSpace), LAMBDA e :
                 <<SubSeq(t, s, e - 1)>> \o splitFrom(t, e)))
split(t) == With(t, LAMBDA v : splitFrom(v, 1))

----------------------------------------------------------------------------
(* Token Counter: len(tiktoken cl100k_base .encode(text)).  The encoder     *)
(* first cuts the text into pieces with its fixed pattern                   *)
(*   [^\r\n\p{L}\p{N}]?\p{L}+ | \p{N}{1,3} | ?[^\s\p{L}\p{N}]+[\r\n]*       *)
(*   | \s*[\r\n]+ | \s+(?!\S) | \s+                                         *)
(* and then encodes each piece on its own; the pieces of the short words    *)
(* used here are one token each, so the count is the number of pieces.      *)

\* end of the piece that starts at position i
TokenEnd(t, i) ==
    LET n     == Len(t)
        c     == t[i]
        wsEnd == RunEnd(t, i, IsSpace)
        nls   == {j \in i..(wsEnd - 1) : IsNewline(t[j])}
    IN  IF IsLetter(c) THEN RunEnd(t, i, IsLetter)
        ELSE IF ~IsNewline(c) /\ ~IsDigit(c) /\ i < n /\ IsLetter(t[i + 1])
             THEN RunEnd(t, i + 1, IsLetter)
        ELSE IF IsDigit(c) THEN MinOf({RunEnd(t, i, IsDigit), i + 3})
        ELSE IF IsPunct(c) THEN RunEnd(t, RunEnd(t, i, IsPunct), IsNewline)
        ELSE IF c = " " /\ i < n /\ IsPunct(t[i + 1])
             THEN RunEnd(t, RunEnd(t, i + 1, IsPunct), IsNewline)
        ELSE IF nls # {} THEN MaxOf(nls) + 1
        ELSE IF wsEnd = n + 1 THEN wsEnd
        ELSE IF wsEnd - i >= 2 THEN wsEnd - 1
        ELSE wsEnd

RECURSIVE countFrom(_, _)
countFrom(t, i) ==
    IF i > Len(t) THEN 0
    ELSE With(TokenEnd(t, i), LAMBDA e : 1 + countFrom(t, e))

count_tokens(t) == With(t, LAMBDA v : countFrom(v, 1))

----------------------------------------------------------------------------
(* Section Detector: ChunkingService._detect_sections.  The thirteen        *)
(* patterns are joined by "|" in this order and compiled with               *)
(* re.MULTILINE | re.IGNORECASE; each operator below gives the end of the   *)
(* match of one pattern at position i, or NoMatch.                          *)

NoMatch == 0
NoTitle == <<"None">>   \* section_title = None (no title is a 1-element text of a 4-letter "character")

AtBOL(t, i) == i = 1 \/ t[i - 1] = "\n"          \* ^ under re.MULTILINE
AtEOL(t, p) == p = Len(t) + 1 \/ t[p] = "\n"     \* $ under re.MULTILINE

\* \s*$ from p: the greedy run backs off to the last position where $ holds
WsEol(t, p) ==
    LET r  == RunEnd(t, p, IsSpace)
        ok == {q \in p..r : AtEOL(t, q)}
    IN  IF ok = {} THEN NoMatch ELSE MaxOf(ok)

\* a literal word (given in lower case) under re.IGNORECASE
Lit(t, i, w) ==
    IF i + Len(w) - 1 <= Len(t) /\ \A k \in 1..Len(w) : ToLower(t[i + k - 1]) = w[k]
    THEN i + Len(w) ELSE NoMatch

\* (\d+\.?\s+)? : the position after the optional number prefix
NumPrefix(t, i) ==
    LET d   == RunEnd(t, i, IsDigit)
        dot == IF d <= Len(t) /\ t[d] = "." THEN d + 1 ELSE d
        w   == RunEnd(t, dot, IsSpace)
    IN  IF d > i /\ w > dot THEN w ELSE i

\* an optional trailing "s" (the "s?" of Methods?, Experiments?, ...)
OptS(t, a, optS) ==
    IF optS /\ a # NoMatch /\ a <= Len(t) /\ ToLower(t[a]) = "s" THEN a + 1 ELSE a

\* ^(\d+\.?\s+)?Word(s?)\s*$
Named(t, i, w, optS) ==
    LET a == IF AtBOL(t, i) THEN Lit(t, NumPrefix(t, i), w) ELSE NoMatch
    IN  IF a = NoMatch THEN NoMatch ELSE WsEol(t, OptS(t, a, optS))

\* ^(Abstract|ABSTRACT)\s*$
PatAbstract(t, i) ==
    LET a == IF AtBOL(t, i) THEN Lit(t, i, <<"a","b","s","t","r","a","c","t">>) ELSE NoMatch
    IN  IF a = NoMatch THEN NoMatch ELSE WsEol(t, a)

\* ^(\d+\.?\s+)?Methodology|Methods?\s*$  : "|" binds loosest, so this is
\* "^(\d+\.?\s+)?Methodology"  or  "Methods?\s*$" (no ^ on the second branch)
PatMethods(t, i) ==
    LET a == IF AtBOL(t, i)
             THEN Lit(t, NumPrefix(t, i), <<"m","e","t","h","o","d","o","l","o","g","y">>)
             ELSE NoMatch
        b == Lit(t, i, <<"m","e","t","h","o","d">>)
    IN  IF a # NoMatch THEN a
        ELSE IF b = NoMatch THEN NoMatch ELSE WsEol(t, OptS(t, b, TRUE))

\* ^[A-Z][A-Z\s]{2,}$ : under re.IGNORECASE [A-Z] is any letter, and \s
\* includes the newline, so the run may span lines
PatAllCaps(t, i) ==
    LET LetterOrSpace(c) == IsLetter(c) \/ IsSpace(c)
        r  == RunEnd(t, i + 1, LetterOrSpace)
        ok == {q \in (i + 3)..r : AtEOL(t, q)}
    IN  IF AtBOL(t, i) /\ IsLetter(t[i]) /\ ok # {} THEN MaxOf(ok) ELSE NoMatch

\* ^\d+\.\s+[A-Z]
PatNumbered(t, i) ==
    LET d == RunEnd(t, i, IsDigit)
        w == RunEnd(t, d + 1, IsSpace)
    IN  IF AtBOL(t, i) /\ d > i /\ d <= Len(t) /\ t[d] = "." /\ w > d + 1
           /\ w <= Len(t) /\ IsLetter(t[w])
        THEN w + 1 ELSE NoMatch

section_patterns(t, i) ==
    << PatAbstract(t, i),
       Named(t, i, <<"i","n","t","r","o","d","u","c","t","i","o","n">>, FALSE),
       Named(t, i, <<"b","a","c","k","g","r","o","u","n","d">>, FALSE),
       Named(t, i, <<"r","e","l","a","t","e","d"," ","w","o","r","k">>, FALSE),
       PatMethods(t, i),
       Named(t, i, <<"e","x","p","e","r","i","m","e","n","t">>, TRUE),
       Named(t, i, <<"r","e","s","u","l","t">>, TRUE),
       Named(t, i, <<"d","i","s","c","u","s","s","i","o","n">>, FALSE),
       Named(t, i, <<"c","o","n","c","l","u","s","i","o","n">>, FALSE),
       Named(t, i, <<"r","e","f","e","r","e","n","c","e">>, TRUE),
       Named(t, i, <<"a","p","p","e","n","d","i","x">>, FALSE),
       PatAllCaps(t, i),
       PatNumbered(t, i) >>

\* the combined pattern at position i: the first alternative that matches
HeaderAt(t, i) ==
    LET p   == section_patterns(t, i)
        hit == {k \in 1..Len(p) : p[k] # NoMatch}
    IN  IF hit = {} THEN NoMatch ELSE p[MinOf(hit)]

\* header_regex.finditer(text): left to right, non-overlapping
RECURSIVE finditer(_, _)
finditer(t, i) ==
    IF i > Len(t) THEN <<>>
    ELSE With(HeaderAt(t, i), LAMBDA e :
             IF e = NoMatch THEN With(i + 1, LAMBDA j : finditer(t, j))
             ELSE << <<i, e>> >> \o finditer(t, e))

RECURSIVE sectionsFrom(_, _, _)
sectionsFrom(t, m, i) ==
    IF i > Len(m) THEN <<>>
    ELSE LET title   == strip(SubSeq(t, m[i][1], m[i][2] - 1))
             end     == IF i + 1 <= Len(m) THEN m[i + 1][1] ELSE Len(t) + 1
             content == strip(SubSeq(t, m[i][2], end - 1))
         IN  (IF content # <<>> THEN <<[title |-> title, content |-> content]>> ELSE <<>>)
             \o sectionsFrom(t, m, i + 1)

\* detect_sections whose "if not matches" branch returns no section at all
detect_sections_without_fallback(t) ==
    With(finditer(t, 1), LAMBDA matches :
        IF matches = <<>> THEN <<>>
        ELSE With(strip(SubSeq(t, 1, matches[1][1] - 1)), LAMBDA pre :
                 (IF pre # <<>> THEN <<[title |-> NoTitle, content |-> pre]>> ELSE <<>>)
                 \o sectionsFrom(t, matches, 1)))

detect_sections(t) ==
    With(finditer(t, 1), LAMBDA matches :
        IF matches = <<>> THEN <<[title |-> NoTitle, content |-> t]>>
        ELSE With(strip(SubSeq(t, 1, matches[1][1] - 1)), LAMBDA pre :
                 (IF pre # <<>> THEN <<[title |-> NoTitle, content |-> pre]>> ELSE <<>>)
                 \o sectionsFrom(t, matches, 1)))

----------------------------------------------------------------------------
(* Sentence Splitter: ChunkingService._split_sentences,                     *)
(* re.split of (?<=[.!?])\s+(?=[A-Z]) (no IGNORECASE here)                  *)

IsSentenceEnd(c) == c \in {".", "!", "?"}

\* end of the separator that starts at i, or NoMatch
SepAt(t, i) ==
    LET r == RunEnd(t, i, IsSpace)
    IN  IF i > 1 /\ IsSentenceEnd(t[i - 1]) /\ r > i /\ r <= Len(t) /\ IsUpper(t[r])
        THEN r ELSE NoMatch

RECURSIVE sentencesFrom(_, _, _)
sentencesFrom(t, s, i) ==
    IF i > Len(t) THEN <<SubSeq(t, s, Len(t))>>
    ELSE With(SepAt(t, i), LAMBDA r :
             IF r = NoMatch THEN With(i + 1, LAMBDA j : sentencesFrom(t, s, j))
             ELSE <<SubSeq(t, s, i - 1)>> \o sentencesFrom(t, r, r))

RECURSIVE stripAll(_)
stripAll(parts) ==
    IF parts = <<>> THEN <<>>
    ELSE With(strip(Head(parts)), LAMBDA s : IF s # <<>> THEN <<s>> ELSE <<>>)
         \o stripAll(Tail(parts))

split_sentences(t) == With(t, LAMBDA v : stripAll(sentencesFrom(v, 1, 1)))

----------------------------------------------------------------------------
(* Chunk Builder: ChunkingService._split_by_tokens and chunk_text           *)

chunk_size_setting    == 512    \* Settings.chunk_size
chunk_overlap_setting == 50     \* Settings.chunk_overlap

ChunkData(content, section_title, chunk_index, token_count) ==
    [content |-> content, section_title |-> section_title,
     chunk_index |-> chunk_index, token_count |-> token_count]

\* chunks.append(ChunkData(content=chunk_text.strip(), ...,
\*                         token_count=self.count_tokens(chunk_text)))
Flush(parts, title, index) ==
    With(join(parts), LAMBDA joined :
        ChunkData(strip(joined), title, index, count_tokens(joined)))

\* WordStep with "word_chunk.append(word)" in the else branch of the flush:
\* the word that triggers a flush is left out
WordStepDroppingWord(word, st, title, size) ==
    With(count_tokens(word \o <<" ">>), LAMBDA word_token_count :
        IF st.word_tokens + word_token_count > size /\ st.word_chunk # <<>>
        THEN [chunks      |-> Append(st.chunks, Flush(st.word_chunk, title, st.chunk_index)),
              word_chunk  |-> <<>>,
              word_tokens |-> 0,
              chunk_index |-> st.chunk_index + 1]
        ELSE [st EXCEPT !.word_chunk  = Append(@, word),
                        !.word_tokens = @ + word_token_count])

\* one pass of the "for word in words" loop;
\* st = [chunks, word_chunk, word_tokens, chunk_index]
WordStep(word, st, title, size) ==
    With(count_tokens(word \o <<" ">>), LAMBDA word_token_count :
        IF st.word_tokens + word_token_count > size /\ st.word_chunk # <<>>
        THEN [chunks      |-> Append(st.chunks, Flush(st.word_chunk, title, st.chunk_index)),
              word_chunk  |-> <<word>>,
              word_tokens |-> word_token_count,
              chunk_index |-> st.chunk_index + 1]
        ELSE [st EXCEPT !.word_chunk  = Append(@, word),
                        !.word_tokens = @ + word_token_count])

RECURSIVE WordLoop(_, _, _, _)
WordLoop(words, st, title, size) ==
    IF words = <<>> THEN st
    ELSE With(WordStep(Head(words), st, title, size), LAMBDA st1 :
             WordLoop(Tail(words), st1, title, size))

\* "Keep last sentences for overlap": for s in reversed(current_chunk),
\* prepend s while overlap_tokens + s_tokens <= chunk_overlap, else break;
\* n sentences of current_chunk are still to be looked at
RECURSIVE OverlapLoop(_, _, _, _)
OverlapLoop(current_chunk, n, ov, chunk_overlap_) ==
    IF n = 0 THEN ov
    ELSE With(count_tokens(current_chunk[n]), LAMBDA s_tokens :
             IF ov.tokens + s_tokens <= chunk_overlap_
             THEN With([chunk  |-> <<current_chunk[n]>> \o ov.chunk,
                        tokens |-> ov.tokens + s_tokens],
                       LAMBDA ov1 : With(n - 1, LAMBDA m :
                           OverlapLoop(current_chunk, m, ov1, chunk_overlap_)))
             ELSE ov)

\* the branch "if sentence_tokens > chunk_size": flush the pending buffer,
\* split the sentence by words, leave the last word group in the buffer
SplitLongSentence(sentence, st, title, size) ==
    With(IF st.current_chunk # <<>>
         THEN [chunks         |-> Append(st.chunks,
                                         Flush(st.current_chunk, title, st.chunk_index)),
               current_chunk  |-> <<>>,
               current_tokens |-> 0,
               chunk_index    |-> st.chunk_index + 1]
         ELSE st,
         LAMBDA st1 :
    With(WordLoop(split(sentence),
                  [chunks |-> st1.chunks, word_chunk |-> <<>>, word_tokens |-> 0,
                   chunk_index |-> st1.chunk_index],
                  title, size),
         LAMBDA w :
             [chunks         |-> w.chunks,
              current_chunk  |-> IF w.word_chunk # <<>> THEN w.word_chunk
                                                        ELSE st1.current_chunk,
              current_tokens |-> IF w.word_chunk # <<>> THEN w.word_tokens
                                                        ELSE st1.current_tokens,
              chunk_index    |-> w.chunk_index]))

\* the rest of the loop body: flush and seed the overlap when the sentence
\* does not fit, then append the sentence
AddSentence(sentence, sentence_tokens, st, title, size, overlap) ==
    With(IF st.current_tokens + sentence_tokens > size /\ st.current_chunk # <<>>
         THEN With(OverlapLoop(st.current_chunk, Len(st.current_chunk),
                               [chunk |-> <<>>, tokens |-> 0], overlap),
                   LAMBDA ov :
                       [chunks         |-> Append(st.chunks,
                                                  Flush(st.current_chunk, title,
                                                        st.chunk_index)),
                        current_chunk  |-> ov.chunk,
                        current_tokens |-> ov.tokens,
                        chunk_index    |-> st.chunk_index + 1])
         ELSE st,
         LAMBDA st1 :
             [st1 EXCEPT !.current_chunk  = Append(@, sentence),
                         !.current_tokens = @ + sentence_tokens])

\* one pass of the "for sentence in sentences" loop;
\* st = [chunks, current_chunk, current_tokens, chunk_index]
SentenceStep(sentence, st, title, size, overlap) ==
    With(count_tokens(sentence), LAMBDA sentence_tokens :
        IF sentence_tokens > size
        THEN SplitLongSentence(sentence, st, title, size)
        ELSE AddSentence(sentence, sentence_tokens, st, title, size, overlap))

RECURSIVE SentenceLoop(_, _, _, _, _)
SentenceLoop(sentences, st, title, size, overlap) ==
    IF sentences = <<>> THEN st
    ELSE With(SentenceStep(Head(sentences), st, title, size, overlap), LAMBDA st1 :
             SentenceLoop(Tail(sentences), st1, title, size, overlap))

split_by_tokens(t, section_title, size, overlap, start_index) ==
    With(split_sentences(t), LAMBDA sentences :
    With(SentenceLoop(sentences,
                      [chunks |-> <<>>, current_chunk |-> <<>>,
                       current_tokens |-> 0, chunk_index |-> start_index],
                      section_title, size, overlap),
         LAMBDA st :
             IF st.current_chunk # <<>>
             THEN Append(st.chunks, Flush(st.current_chunk, section_title, st.chunk_index))
             ELSE st.chunks))

\* Python "x or default" on an int argument: None and 0 both give the default
OrDefault(x, default) == IF x = 0 THEN default ELSE x

\* SectionStep with "chunk_index += 1" after a split section in place of
\* "chunk_index += len(section_chunks)"
SectionStepOnePerSection(sec, st, size, overlap) ==
    With(count_tokens(sec.content), LAMBDA section_tokens :
        IF section_tokens <= size
        THEN [chunks      |-> Append(st.chunks,
                                     ChunkData(strip(sec.content), sec.title,
                                               st.chunk_index, section_tokens)),
              chunk_index |-> st.chunk_index + 1]
        ELSE With(split_by_tokens(sec.content, sec.title, size, overlap, st.chunk_index),
                  LAMBDA section_chunks :
                      [chunks      |-> st.chunks \o section_chunks,
                       chunk_index |-> st.chunk_index + 1]))

\* one pass of the "for section_title, section_content in sections" loop;
\* st = [chunks, chunk_index]
SectionStep(sec, st, size, overlap) ==
    With(count_tokens(sec.content), LAMBDA section_tokens :
        IF section_tokens <= size
        THEN [chunks      |-> Append(st.chunks,
                                     ChunkData(strip(sec.content), sec.title,
                                               st.chunk_index, section_tokens)),
              chunk_index |-> st.chunk_index + 1]
        ELSE With(split_by_tokens(sec.content, sec.title, size, overlap, st.chunk_index),
                  LAMBDA section_chunks :
                      [chunks      |-> st.chunks \o section_chunks,
                       chunk_index |-> st.chunk_index + Len(section_chunks)]))

RECURSIVE SectionLoop(_, _, _, _)
SectionLoop(sections, st, size, overlap) ==
    IF sections = <<>> THEN st
    ELSE With(SectionStep(Head(sections), st, size, overlap), LAMBDA st1 :
             SectionLoop(Tail(sections), st1, size, overlap))

chunk_text(t, size_arg, overlap_arg) ==
    With(detect_sections(t), LAMBDA sections :
        SectionLoop(sections, [chunks |-> <<>>, chunk_index |-> 0],
                    OrDefault(size_arg, chunk_size_setting),
                    OrDefault(overlap_arg, chunk_overlap_setting)).chunks)

----------------------------------------------------------------------------
(* Similarity Ranker: RetrievalService._vector_search.  A row of `rows` is  *)
(* one row of chunks JOIN embeddings JOIN papers: [id, paper_id, embedding].*)
(* Vectors have integer components, and a similarity is kept exactly as     *)
(* [dot, den2]: the dot product and the square of the magnitude product.    *)

Null == [null |-> TRUE]      \* SQL NULL

RECURSIVE SumProd(_, _)
SumProd(a, b) == IF a = <<>> THEN 0 ELSE Head(a) * Head(b) + SumProd(Tail(a), Tail(b))

\* Similarity with COALESCE(..., 0) around the quotient: a zero denominator
\* scores 0 in place of NULL
SimilarityCoalesced(embedding, vec) ==
    LET den2 == SumProd(embedding, embedding) * SumProd(vec, vec)
    IN  IF den2 = 0 THEN [null |-> FALSE, dot |-> 0, den2 |-> 1]
        ELSE [null |-> FALSE, dot |-> SumProd(embedding, vec), den2 |-> den2]

\* SUM(a * b) / NULLIF(sqrt(SUM(a * a)) * sqrt(SUM(b * b)), 0)
Similarity(embedding, vec) ==
    LET den2 == SumProd(embedding, embedding) * SumProd(vec, vec)
    IN  IF den2 = 0 THEN Null
        ELSE [null |-> FALSE, dot |-> SumProd(embedding, vec), den2 |-> den2]

\* x < y for non-NULL similarities: dot/sqrt(den2) compared through the
\* monotone map v -> sign(v) * v^2
SignedSquare(v) == IF v < 0 THEN 0 - v * v ELSE v * v
SimLess(x, y) == SignedSquare(x.dot) * y.den2 < SignedSquare(y.dot) * x.den2
SimIsOne(x)   == x.dot > 0 /\ x.dot * x.dot = x.den2

\* PaperFilter with the WHERE clause left out of the statement
PaperFilterLeftOut(row, paper_id) == TRUE

\* {paper_filter}: "WHERE c.paper_id = :paper_id" if paper_id else ""
PaperFilter(row, paper_id) == paper_id = "" \/ row.paper_id = paper_id

\* the CTE "similarities" followed by WHERE similarity IS NOT NULL
RECURSIVE Similarities(_, _, _)
Similarities(rs, vec, paper_id) ==
    IF rs = <<>> THEN <<>>
    ELSE LET r   == Head(rs)
             sim == Similarity(r.embedding, vec)
         IN  (IF PaperFilter(r, paper_id) /\ sim # Null
              THEN <<[chunk_id |-> r.id, paper_id |-> r.paper_id, similarity_score |-> sim]>>
              ELSE <<>>)
             \o Similarities(Tail(rs), vec, paper_id)

\* ORDER BY similarity DESC orders rows of equal similarity in any order:
\* every arrangement of the rows with no similarity rising along it
OrderedDesc(sims) ==
    \A i \in 1..Len(sims) : \A j \in (i + 1)..Len(sims) :
        ~SimLess(sims[i].similarity_score, sims[j].similarity_score)

\* the statement without its ORDER BY: the rows in any order
OrderByNothing(sims) ==
    LET n     == Len(sims)
        perms == {p \in [1..n -> 1..n] : \A i, j \in 1..n : i # j => p[i] # p[j]}
    IN  {[i \in 1..n |-> sims[p[i]]] : p \in perms}

OrderBySimilarityDesc(sims) ==
    LET n     == Len(sims)
        perms == {p \in [1..n -> 1..n] : \A i, j \in 1..n : i # j => p[i] # p[j]}
        all   == {[i \in 1..n |-> sims[p[i]]] : p \in perms}
    IN  {o \in all : OrderedDesc(o)}

\* LIMIT :top_k
Limit(sims, k) == SubSeq(sims, 1, IF k < Len(sims) THEN k ELSE Len(sims))

top_k_chunks_setting == 5     \* Settings.top_k_chunks

MaxRows == 3     \* rows in the joined table
MaxTopK == 2     \* top_k is 1..MaxTopK or the setting

Vectors  == {<<0, 0>>, <<1, 0>>, <<0, 1>>, <<1, 1>>, <<-1, 0>>}
PaperIds == {"p1", "p2"}

\* tables of up to MaxRows rows; ids are the storage positions, and the
\* first row belongs to paper p1 (the paper names are interchangeable)
Tables ==
    UNION { { [i \in 1..n |-> [id |-> i, paper_id |-> ps[i], embedding |-> es[i]]] :
                ps \in {f \in [1..n -> PaperIds] : n = 0 \/ f[1] = "p1"},
                es \in [1..n -> Vectors] } : n \in 0..MaxRows }

RankInit ==
    /\ rows \in Tables
    /\ query_vector \in Vectors
    /\ top_k \in (1..MaxTopK) \cup {top_k_chunks_setting}
    /\ scope \in {"", "p1"}
    /\ results = <<>>
    /\ rpc = "called"

\* RetrievalService._vector_search runs to its return
VectorSearch ==
    /\ rpc = "called"
    /\ \E o \in OrderBySimilarityDesc(Similarities(rows, query_vector, scope)) :
           results' = Limit(o, top_k)
    /\ rpc' = "returned"
    /\ UNCHANGED <<rows, query_vector, top_k, scope>>
    /\ UNCHANGED <<chunkVars, cacheVars, otherVars>>

----------------------------------------------------------------------------
(* Answer Cache Gate: get_cached_answer, cache_answer and answer_question   *)
(* of pages/2_Ask_Questions.py.  Every Streamlit session runs               *)
(* answer_question on its own thread; the steps of one call are its         *)
(* database transactions and its calls to the external services.            *)

Sessions  == {"s1", "s2"}
Questions == {"q1", "q2"}
MaxCalls  == 3     \* answer_question calls started in one behaviour

\* the papers/chunks/embeddings the database may hold when the questions are asked
Corpora ==
    { <<>>,
      <<[id |-> 1, paper_id |-> "p1", embedding |-> <<1, 0>>]>>,
      <<[id |-> 1, paper_id |-> "p1", embedding |-> <<1, 0>>],
        [id |-> 2, paper_id |-> "p2", embedding |-> <<0, 0>>]>>,
      <<[id |-> 1, paper_id |-> "p1", embedding |-> <<1, 0>>],
        [id |-> 2, paper_id |-> "p2", embedding |-> <<1, 1>>]>> }

\* what embed_query may return for a question
QueryVectors == {<<0, 0>>, <<1, 0>>}

NoCall == [kind |-> "none", question |-> "", cached |-> FALSE, confidence |-> "",
           answer |-> "", rank_calls |-> 0, gen_calls |-> 0, comp_calls |-> 0,
           trace |-> <<>>, matched |-> 0, alone |-> FALSE]
NoAnswer == [text |-> "", confidence |-> ""]
NoContext == [chunk_ids |-> <<>>, compressed |-> FALSE]

CacheInit ==
    /\ query_cache = <<>>
    /\ pc = [s \in Sessions |-> "idle"]
    /\ question = [s \in Sessions |-> ""]
    /\ retrieved = [s \in Sessions |-> <<>>]
    /\ answer = [s \in Sessions |-> NoAnswer]
    /\ rank_calls = [s \in Sessions |-> 0]
    /\ gen_calls = [s \in Sessions |-> 0]
    /\ comp_calls = [s \in Sessions |-> 0]
    /\ compressed_context = [s \in Sessions |-> NoContext]
    /\ gen_context = [s \in Sessions |-> NoContext]
    /\ trace = [s \in Sessions |-> <<>>]
    /\ last = NoCall
    /\ prev = NoCall
    /\ calls = 0
    /\ alone = [s \in Sessions |-> FALSE]

\* select(QueryCache).where(QueryCache.question == question)
CacheRowsFor(q) == SelectSeq(query_cache, LAMBDA r : r.question = q)

\* answer_question returns or raises: the call is recorded as the last one
Finish(s, kind, cached, confidence, txt, ranked, generated, matched, steps) ==
    /\ prev' = last
    /\ last' = [kind |-> kind, question |-> question[s], cached |-> cached,
                confidence |-> confidence, answer |-> txt,
                rank_calls |-> ranked, gen_calls |-> generated,
                comp_calls |-> comp_calls[s], trace |-> steps,
                matched |-> matched, alone |-> alone[s]]
    /\ pc' = [pc EXCEPT ![s] = "idle"]
    /\ trace' = [trace EXCEPT ![s] = steps]
    /\ UNCHANGED alone

\* a session calls answer_question(q)
Ask(s, q) ==
    /\ pc[s] = "idle"
    /\ calls < MaxCalls
    /\ calls' = calls + 1
    /\ question' = [question EXCEPT ![s] = q]
    /\ pc' = [pc EXCEPT ![s] = "lookup"]
    /\ retrieved' = [retrieved EXCEPT ![s] = <<>>]
    /\ answer' = [answer EXCEPT ![s] = NoAnswer]
    /\ rank_calls' = [rank_calls EXCEPT ![s] = 0]
    /\ gen_calls' = [gen_calls EXCEPT ![s] = 0]
    /\ comp_calls' = [comp_calls EXCEPT ![s] = 0]
    /\ compressed_context' = [compressed_context EXCEPT ![s] = NoContext]
    /\ gen_context' = [gen_context EXCEPT ![s] = NoContext]
    /\ trace' = [trace EXCEPT ![s] = <<>>]
    /\ alone' = [u \in Sessions |->
                    IF u = s THEN \A t \in Sessions \ {s} : pc[t] = "idle"
                    ELSE IF pc[u] # "idle" THEN FALSE ELSE alone[u]]
    /\ UNCHANGED <<query_cache, last, prev, rows, frame>>

\* get_cached_answer finds no row: answer_question goes on to the services
LookupMiss(s) ==
    /\ pc[s] = "lookup"
    /\ Len(CacheRowsFor(question[s])) = 0
    /\ pc' = [pc EXCEPT ![s] = "retrieve"]
    /\ trace' = [trace EXCEPT ![s] = Append(@, "lookup")]
    /\ UNCHANGED <<query_cache, question, retrieved, answer, rank_calls, gen_calls,
                   comp_calls, compressed_context, gen_context, last, prev, calls, alone, rows, frame>>

\* get_cached_answer: scalar_one_or_none() returns the single row, and
\* answer_question returns it with cached = True and confidence "high"
LookupHit(s) ==
    /\ pc[s] = "lookup"
    /\ Len(CacheRowsFor(question[s])) = 1
    /\ Finish(s, "hit", TRUE, "high", CacheRowsFor(question[s])[1].answer,
              rank_calls[s], gen_calls[s], 1, Append(trace[s], "lookup"))
    /\ UNCHANGED <<query_cache, question, retrieved, answer, rank_calls, gen_calls,
                   comp_calls, compressed_context, gen_context, calls, rows, frame>>

\* get_cached_answer: scalar_one_or_none() raises MultipleResultsFound when
\* the statement yields more than one row; answer_question lets it through
LookupMultiple(s) ==
    /\ pc[s] = "lookup"
    /\ Len(CacheRowsFor(question[s])) > 1
    /\ Finish(s, "raised", FALSE, "", "MultipleResultsFound",
              rank_calls[s], gen_calls[s], Len(CacheRowsFor(question[s])),
              Append(trace[s], "lookup"))
    /\ UNCHANGED <<query_cache, question, retrieved, answer, rank_calls, gen_calls,
                   comp_calls, compressed_context, gen_context, calls, rows, frame>>

\* retrieve_chunks: embed_query raises after its retries, before the search
RetrieveEmbedFails(s) ==
    /\ pc[s] = "retrieve"
    /\ Finish(s, "raised", FALSE, "", "RuntimeError", rank_calls[s], gen_calls[s], 0,
              Append(trace[s], "embed"))
    /\ UNCHANGED <<query_cache, question, retrieved, answer, rank_calls, gen_calls,
                   comp_calls, compressed_context, gen_context, calls, rows, frame>>

\* retrieve_chunks: embed_query, then _vector_search over all papers with
\* top_k = settings.top_k_chunks
RetrievedBy(vec) ==
    {Limit(o, top_k_chunks_setting) : o \in OrderBySimilarityDesc(Similarities(rows, vec, ""))}

\* "if not retrieved_chunks": the no-information answer, nothing is cached
RetrieveNone(s) ==
    /\ pc[s] = "retrieve"
    /\ \E vec \in QueryVectors : <<>> \in RetrievedBy(vec)
    /\ rank_calls' = [rank_calls EXCEPT ![s] = @ + 1]
    /\ Finish(s, "no_info", FALSE, "low", "no relevant information",
              rank_calls[s] + 1, gen_calls[s], 0, trace[s] \o <<"embed", "rank">>)
    /\ UNCHANGED <<query_cache, question, retrieved, answer, gen_calls,
                   comp_calls, compressed_context, gen_context, calls, rows, frame>>

\* RetrieveSome without the "if not retrieved_chunks" return: an empty
\* result goes on to compression like any other
RetrieveAny(s) ==
    /\ pc[s] = "retrieve"
    /\ \E vec \in QueryVectors : \E r \in RetrievedBy(vec) :
           retrieved' = [retrieved EXCEPT ![s] = r]
    /\ rank_calls' = [rank_calls EXCEPT ![s] = @ + 1]
    /\ trace' = [trace EXCEPT ![s] = @ \o <<"embed", "rank">>]
    /\ pc' = [pc EXCEPT ![s] = "compress"]
    /\ UNCHANGED <<query_cache, question, answer, gen_calls, comp_calls, compressed_context,
                   gen_context, last, prev, calls, alone, rows, frame>>

RetrieveSome(s) ==
    /\ pc[s] = "retrieve"
    /\ \E vec \in QueryVectors : \E r \in RetrievedBy(vec) :
           /\ r # <<>>
           /\ retrieved' = [retrieved EXCEPT ![s] = r]
    /\ rank_calls' = [rank_calls EXCEPT ![s] = @ + 1]
    /\ trace' = [trace EXCEPT ![s] = @ \o <<"embed", "rank">>]
    /\ pc' = [pc EXCEPT ![s] = "compress"]
    /\ UNCHANGED <<query_cache, question, answer, gen_calls, comp_calls, compressed_context,
                   gen_context, last, prev, calls, alone, rows, frame>>

\* Compress placed after generation: the call of compress_context is
\* skipped on the way to generate_content
CompressSkipped(s) ==
    /\ pc[s] = "compress"
    /\ pc' = [pc EXCEPT ![s] = "generate"]
    /\ UNCHANGED <<query_cache, question, retrieved, answer, rank_calls, gen_calls,
                   comp_calls, compressed_context, gen_context, trace,
                   last, prev, calls, alone, rows, frame>>

\* compression_service.compress_context(chunk_contents, question): the
\* compressed context or, when the API fails, the uncompressed one; either
\* way the call goes on.  A chunk's content is named by its chunk id.
Compress(s) ==
    /\ pc[s] = "compress"
    /\ \E ok \in BOOLEAN :
           compressed_context' = [compressed_context EXCEPT ![s] =
                          [chunk_ids  |-> [i \in 1..Len(retrieved[s]) |-> retrieved[s][i].chunk_id],
                           compressed |-> ok]]
    /\ comp_calls' = [comp_calls EXCEPT ![s] = @ + 1]
    /\ trace' = [trace EXCEPT ![s] = Append(@, "compress")]
    /\ pc' = [pc EXCEPT ![s] = "generate"]
    /\ UNCHANGED <<query_cache, question, retrieved, answer, rank_calls, gen_calls,
                   gen_context, last, prev, calls, alone, rows, frame>>

\* generation_service.answer_question(compressed_context, question,
\* chunk_ids): the model's answer with its assessed confidence, or on any
\* exception the apology text with confidence "not_found"
Generate(s) ==
    /\ pc[s] = "generate"
    /\ \E a \in {[text |-> "generated", confidence |-> c] :
                     c \in {"high", "medium", "not_found"}}
                \cup {[text |-> "error", confidence |-> "not_found"]} :
           answer' = [answer EXCEPT ![s] = a]
    /\ gen_context' = [gen_context EXCEPT ![s] = compressed_context[s]]
    /\ gen_calls' = [gen_calls EXCEPT ![s] = @ + 1]
    /\ trace' = [trace EXCEPT ![s] = Append(@, "generate")]
    /\ pc' = [pc EXCEPT ![s] = "store"]
    /\ UNCHANGED <<query_cache, question, retrieved, rank_calls, comp_calls, compressed_context,
                   last, prev, calls, alone, rows, frame>>

\* Store with cache_answer leaving out db.commit(): the row is rolled back
\* when the database session closes
StoreWithoutCommit(s) ==
    /\ pc[s] = "store"
    /\ \E primary \in {retrieved[s][i].paper_id : i \in 1..Len(retrieved[s])} :
           primary \in papers
    /\ query_cache' = query_cache
    /\ Finish(s, "answered", FALSE, answer[s].confidence, answer[s].text,
              rank_calls[s], gen_calls[s], 0, Append(trace[s], "store"))
    /\ UNCHANGED <<question, retrieved, answer, rank_calls, gen_calls,
                   comp_calls, compressed_context, gen_context, calls, rows, frame>>

\* cache_answer adds a row (db.add, db.commit) and answer_question returns;
\* paper_ids = list(set(...)), so any of the source papers may come first.
\* The row's paper_id is a foreign key to papers.id: the paper must exist.
Store(s) ==
    /\ pc[s] = "store"
    /\ \E primary \in {retrieved[s][i].paper_id : i \in 1..Len(retrieved[s])} :
           /\ primary \in papers
           /\ query_cache' = Append(query_cache,
               [question  |-> question[s],
                answer    |-> answer[s].text,
                paper_id  |-> primary,
                chunk_ids |-> [i \in 1..Len(retrieved[s]) |-> retrieved[s][i].chunk_id],
                paper_ids |-> {retrieved[s][i].paper_id : i \in 1..Len(retrieved[s])}])
    /\ Finish(s, "answered", FALSE, answer[s].confidence, answer[s].text,
              rank_calls[s], gen_calls[s], 0, Append(trace[s], "store"))
    /\ UNCHANGED <<question, retrieved, answer, rank_calls, gen_calls,
                   comp_calls, compressed_context, gen_context, calls, rows, frame>>

\* cache_answer when the primary paper is gone by now: db.commit() raises
\* IntegrityError (foreign key), no row is added, answer_question raises
StoreFails(s) ==
    /\ pc[s] = "store"
    /\ \E primary \in {retrieved[s][i].paper_id : i \in 1..Len(retrieved[s])} :
           primary \notin papers
    /\ Finish(s, "raised", FALSE, "", "IntegrityError",
              rank_calls[s], gen_calls[s], 0, Append(trace[s], "store"))
    /\ UNCHANGED <<query_cache, question, retrieved, answer, rank_calls, gen_calls,
                   comp_calls, compressed_context, gen_context, calls, rows, frame>>

----------------------------------------------------------------------------
(* Embedding service: EmbeddingService.embed_text, embed_batch,             *)
(* _embed_with_retry and _clean_text.  A vector is [dim, of]: its dimension *)
(* and the text it embeds, <<"0.0">> for [0.0] * dim.                      *)

embedding_dimensions_setting == 3072   \* Settings.embedding_dimensions
batch_size  == 10                      \* batch_size in embed_batch
max_retries == 3                       \* self._max_retries
retry_delay == 1                       \* self._retry_delay, in seconds
max_chars   == 25000                   \* max_chars in _clean_text

\* " ".join(text.split()), truncated to max_chars
clean_text(t) ==
    With(join(split(t)), LAMBDA cleaned :
        IF Len(cleaned) > max_chars THEN SubSeq(cleaned, 1, max_chars) ELSE cleaned)

\* [0.0] * self._embedding_dim
ZeroVector == [dim |-> embedding_dimensions_setting, of |-> <<"0.0">>]

\* what genai.embed_content returns for one content string
ApiEmbedding(t) == [dim |-> embedding_dimensions_setting, of |-> t]

\* batch = cleaned_texts[i : i + batch_size]
BatchOf(cleaned, i) ==
    SubSeq(cleaned, i + 1, IF i + batch_size < Len(cleaned) THEN i + batch_size
                                                             ELSE Len(cleaned))

\* valid_batch = [t if t else " " for t in batch]
ValidBatch(batch) == [j \in 1..Len(batch) |-> IF batch[j] = <<>> THEN <<" ">> ELSE batch[j]]

\* return all_embeddings; embed_text returns embeddings[0]
EmbedReturn(all) ==
    /\ embed_result' = (IF entry = "embed_text" THEN all[1] ELSE all)
    /\ epc' = "returned"

\* the "for i in range(0, len(cleaned_texts), batch_size)" loop moves on to
\* the next batch or the method returns
NextBatch(all) ==
    IF batch_i + batch_size < Len(cleaned_texts)
    THEN /\ batch_i' = batch_i + batch_size
         /\ epc' = "batch"
         /\ UNCHANGED embed_result
    ELSE /\ EmbedReturn(all)
         /\ UNCHANGED batch_i

\* the sequential loop "for text in batch" moves on to the next text, or
\* the batch is done
NextItem(all) ==
    IF seq_item < Len(BatchOf(cleaned_texts, batch_i))
    THEN /\ seq_item' = seq_item + 1
         /\ UNCHANGED <<batch_i, epc, embed_result>>
    ELSE /\ seq_item' = 0
         /\ NextBatch(all)

\* "if not texts: return []", else cleaned_texts = [_clean_text(t) ...]
EmbedStart ==
    /\ epc = "called" /\ entry # "embed_query"
    /\ IF texts = <<>>
       THEN /\ embed_result' = <<>>
            /\ epc' = "returned"
            /\ UNCHANGED cleaned_texts
       ELSE /\ cleaned_texts' = [j \in 1..Len(texts) |-> clean_text(texts[j])]
            /\ epc' = "batch"
            /\ UNCHANGED embed_result
    /\ UNCHANGED <<texts, entry, all_embeddings, batch_i, seq_item, attempt,
                   failed_batches, exhausted, api_calls, sleeps, retry_out, embedFrame>>

\* the batch call returns {'embedding': [...]}: all_embeddings.extend(...)
BatchOk ==
    /\ epc = "batch"
    /\ LET vb  == ValidBatch(BatchOf(cleaned_texts, batch_i))
           all == all_embeddings \o [j \in 1..Len(vb) |-> ApiEmbedding(vb[j])]
       IN  /\ all_embeddings' = all
           /\ NextBatch(all)
    /\ UNCHANGED <<texts, entry, cleaned_texts, seq_item, attempt,
                   failed_batches, exhausted, api_calls, sleeps, retry_out, embedFrame>>

\* the batch call raises, or its response has no 'embedding' key
\* (ValueError): fall back to sequential processing of this batch
BatchFails ==
    /\ epc = "batch"
    /\ failed_batches' = failed_batches \cup {batch_i}
    /\ seq_item' = 1
    /\ attempt' = 0
    /\ epc' = "seq"
    /\ UNCHANGED <<texts, entry, cleaned_texts, all_embeddings, batch_i,
                   embed_result, exhausted, api_calls, sleeps, retry_out, embedFrame>>

\* "if not text: all_embeddings.append([0.0] * dim); continue"
SeqEmpty ==
    /\ epc = "seq"
    /\ BatchOf(cleaned_texts, batch_i)[seq_item] = <<>>
    /\ LET all == Append(all_embeddings, ZeroVector)
       IN  /\ all_embeddings' = all
           /\ NextItem(all)
    /\ UNCHANGED <<texts, entry, cleaned_texts, attempt, failed_batches,
                   exhausted, api_calls, sleeps, retry_out, embedFrame>>

\* how a retry loop ended: the API calls it made, the delays it slept
RetryOut(result, n, slept) == [result |-> result, calls |-> n, sleeps |-> slept]
NoRetry == RetryOut("none", 0, <<>>)

\* the retry loop ends: its counters start afresh for the next one
RetryEnds(result, n, slept) ==
    /\ retry_out' = RetryOut(result, n, slept)
    /\ attempt' = 0
    /\ api_calls' = 0
    /\ sleeps' = <<>>

\* "except Exception" of an attempt that is not the last:
\* time.sleep(self._retry_delay * (attempt + 1)), then the next attempt
AttemptFails ==
    /\ attempt < max_retries - 1
    /\ api_calls' = api_calls + 1
    /\ sleeps' = Append(sleeps, retry_delay * (attempt + 1))
    /\ attempt' = attempt + 1
    /\ UNCHANGED retry_out

\* an attempt of _embed_with_retry returns result["embedding"]
SeqAttemptOk ==
    /\ epc = "seq"
    /\ BatchOf(cleaned_texts, batch_i)[seq_item] # <<>>
    /\ LET all == Append(all_embeddings,
                         ApiEmbedding(BatchOf(cleaned_texts, batch_i)[seq_item]))
       IN  /\ all_embeddings' = all
           /\ NextItem(all)
    /\ RetryEnds("ok", api_calls + 1, sleeps)
    /\ UNCHANGED <<texts, entry, cleaned_texts, failed_batches, exhausted, embedFrame>>

\* SeqAttemptFails sleeping self._retry_delay after every failed attempt
SeqAttemptFailsFixedDelay ==
    /\ epc = "seq"
    /\ BatchOf(cleaned_texts, batch_i)[seq_item] # <<>>
    /\ attempt < max_retries - 1
    /\ api_calls' = api_calls + 1
    /\ sleeps' = Append(sleeps, retry_delay)
    /\ attempt' = attempt + 1
    /\ UNCHANGED <<texts, entry, cleaned_texts, all_embeddings, batch_i, seq_item,
                   embed_result, epc, failed_batches, exhausted, retry_out, embedFrame>>

\* an attempt of _embed_with_retry raises and another attempt is left
SeqAttemptFails ==
    /\ epc = "seq"
    /\ BatchOf(cleaned_texts, batch_i)[seq_item] # <<>>
    /\ AttemptFails
    /\ UNCHANGED <<texts, entry, cleaned_texts, all_embeddings, batch_i, seq_item,
                   embed_result, epc, failed_batches, exhausted, embedFrame>>

\* SeqExhausted of embed_batch with "continue" in the handler: no
\* placeholder is appended
SeqExhaustedNoPlaceholder ==
    /\ epc = "seq" /\ entry = "embed_batch"
    /\ BatchOf(cleaned_texts, batch_i)[seq_item] # <<>>
    /\ attempt = max_retries - 1
    /\ Cardinality(exhausted) < 2
    /\ exhausted' = exhausted \cup {batch_i + seq_item}
    /\ all_embeddings' = all_embeddings
    /\ NextItem(all_embeddings)
    /\ RetryEnds("RuntimeError", api_calls + 1, sleeps)
    /\ UNCHANGED <<texts, entry, cleaned_texts, failed_batches, embedFrame>>

MaxExhausted == 2    \* texts of one call whose retries may all fail

\* the last attempt raises: _embed_with_retry raises RuntimeError, which
\* "except Exception as seq_e" answers with a zero vector
SeqExhausted ==
    /\ epc = "seq"
    /\ BatchOf(cleaned_texts, batch_i)[seq_item] # <<>>
    /\ attempt = max_retries - 1
    /\ Cardinality(exhausted) < MaxExhausted
    /\ exhausted' = exhausted \cup {batch_i + seq_item}
    /\ LET all == Append(all_embeddings, ZeroVector)
       IN  /\ all_embeddings' = all
           /\ NextItem(all)
    /\ RetryEnds("RuntimeError", api_calls + 1, sleeps)
    /\ UNCHANGED <<texts, entry, cleaned_texts, failed_batches, embedFrame>>

\* embed_query: cleaned_query = self._clean_text(query);
\* "if not cleaned_query: raise ValueError"
QueryStart ==
    /\ epc = "called" /\ entry = "embed_query"
    /\ cleaned_texts' = <<clean_text(texts[1])>>
    /\ IF clean_text(texts[1]) = <<>>
       THEN /\ epc' = "raised"
            /\ RetryEnds("ValueError", api_calls, sleeps)
       ELSE /\ epc' = "query"
            /\ UNCHANGED <<attempt, api_calls, sleeps, retry_out>>
    /\ UNCHANGED <<texts, entry, all_embeddings, batch_i, seq_item, embed_result,
                   failed_batches, exhausted, embedFrame>>

\* an attempt of embed_query returns result["embedding"]
QueryAttemptOk ==
    /\ epc = "query"
    /\ embed_result' = ApiEmbedding(cleaned_texts[1])
    /\ epc' = "returned"
    /\ RetryEnds("ok", api_calls + 1, sleeps)
    /\ UNCHANGED <<texts, entry, cleaned_texts, all_embeddings, batch_i, seq_item,
                   failed_batches, exhausted, embedFrame>>

\* an attempt of embed_query raises and another attempt is left
QueryAttemptFails ==
    /\ epc = "query"
    /\ AttemptFails
    /\ UNCHANGED <<texts, entry, cleaned_texts, all_embeddings, batch_i, seq_item,
                   embed_result, epc, failed_batches, exhausted, embedFrame>>

\* the last attempt of embed_query raises: RuntimeError leaves the method
QueryExhausted ==
    /\ epc = "query"
    /\ attempt = max_retries - 1
    /\ epc' = "raised"
    /\ RetryEnds("RuntimeError", api_calls + 1, sleeps)
    /\ UNCHANGED <<texts, entry, cleaned_texts, all_embeddings, batch_i, seq_item,
                   embed_result, failed_batches, exhausted, embedFrame>>

MaxTexts == 11   \* longest list of texts: one more than a batch

\* text number i of a list: i letters, so that no two positions are alike
TextNo(i) == [k \in 1..i |-> "a"] \o <<" ", " ", "b", " ">>

\* lists of distinct texts, the first or the last of them possibly empty
\* or blank
TextLists ==
    UNION { { [i \in 1..n |-> IF i \in blanks THEN blank ELSE TextNo(i)] :
                blanks \in {{}, {1}, {n}}, blank \in {<<>>, <<" ">>} } : n \in 0..MaxTexts }

EmbedIdle ==
    /\ texts = <<>> /\ entry = "" /\ cleaned_texts = <<>> /\ all_embeddings = <<>>
    /\ batch_i = 0 /\ seq_item = 0 /\ attempt = 0 /\ embed_result = <<>>
    /\ epc = "idle" /\ failed_batches = {} /\ exhausted = {}
    /\ api_calls = 0 /\ sleeps = <<>> /\ retry_out = NoRetry

EmbedInit ==
    /\ texts \in TextLists
    /\ entry \in (IF Len(texts) = 1 THEN {"embed_text", "embed_batch", "embed_query"}
                                     ELSE {"embed_batch"})
    /\ cleaned_texts = <<>> /\ all_embeddings = <<>>
    /\ batch_i = 0 /\ seq_item = 0 /\ attempt = 0 /\ embed_result = <<>>
    /\ epc = "called" /\ failed_batches = {} /\ exhausted = {}
    /\ api_calls = 0 /\ sleeps = <<>> /\ retry_out = NoRetry

----------------------------------------------------------------------------
(* Upload: process_pdf and get_db_session.  Every upload runs in its own    *)
(* Streamlit session and database session (autocommit off): rows it adds    *)
(* and flushes stay in its transaction until db.commit(), and a statement   *)
(* of another session reads committed rows only.                            *)

Uploads == {"u1", "u2"}
MaxUploadChunks == 2     \* chunks of an uploaded paper

NoRows == [papers |-> {}, chunks |-> {}, embeddings |-> {}]

\* zip(chunks, embeddings): pairs up to the shorter list
Zip(a, b) == [i \in 1..(IF Len(a) < Len(b) THEN Len(a) ELSE Len(b)) |-> <<a[i], b[i]>>]

UploadInit ==
    /\ db = NoRows
    /\ tx = [u \in Uploads |-> NoRows]
    /\ upc = [u \in Uploads |-> "extract"]
    /\ up_chunks = [u \in Uploads |-> <<>>]
    /\ up_embeddings = [u \in Uploads |-> <<>>]
    /\ up_k = [u \in Uploads |-> 0]
    /\ seen = NoRows

UploadIdle ==
    /\ db = NoRows
    /\ tx = [u \in Uploads |-> NoRows]
    /\ upc = [u \in Uploads |-> "idle"]
    /\ up_chunks = [u \in Uploads |-> <<>>]
    /\ up_embeddings = [u \in Uploads |-> <<>>]
    /\ up_k = [u \in Uploads |-> 0]
    /\ seen = NoRows

\* pdf_service.extract_text / extract_metadata raise: process_pdf re-raises
ExtractFails(u) ==
    /\ upc[u] = "extract"
    /\ upc' = [upc EXCEPT ![u] = "failed"]
    /\ UNCHANGED <<db, tx, up_chunks, up_embeddings, up_k, seen, uploadFrame>>

\* extraction, chunk_text and embed_batch: chunks numbered 0..n-1 and one
\* vector per chunk, an embedding or the zero placeholder
ExtractChunkEmbed(u) ==
    /\ upc[u] = "extract"
    /\ \E n \in 0..MaxUploadChunks :
           /\ up_chunks' = [up_chunks EXCEPT ![u] = [i \in 1..n |-> i - 1]]
           /\ \E es \in [1..n -> {ApiEmbedding(<<"c">>), ZeroVector}] :
                  up_embeddings' = [up_embeddings EXCEPT ![u] = es]
    /\ upc' = [upc EXCEPT ![u] = "add_paper"]
    /\ UNCHANGED <<db, tx, up_k, seen, uploadFrame>>

\* the loop over zip(chunks, embeddings) goes on, or db.commit() is next
LoopOrCommit(u, k) ==
    IF k < Len(Zip(up_chunks[u], up_embeddings[u])) THEN "add_chunk" ELSE "commit"

\* db.add(paper); db.flush()
AddPaper(u) ==
    /\ upc[u] = "add_paper"
    /\ tx' = [tx EXCEPT ![u].papers = @ \cup {u}]
    /\ upc' = [upc EXCEPT ![u] = LoopOrCommit(u, 0)]
    /\ UNCHANGED <<db, up_chunks, up_embeddings, up_k, seen, uploadFrame>>

\* AddChunk with db.commit() in place of db.flush()
AddChunkCommitting(u) ==
    /\ upc[u] = "add_chunk"
    /\ db' = [papers     |-> db.papers \cup tx[u].papers,
              chunks     |-> db.chunks \cup tx[u].chunks \cup
                                 {[paper_id |-> u,
                                   chunk_index |-> Zip(up_chunks[u], up_embeddings[u])[up_k[u] + 1][1]]},
              embeddings |-> db.embeddings \cup tx[u].embeddings]
    /\ tx' = [tx EXCEPT ![u] = NoRows]
    /\ upc' = [upc EXCEPT ![u] = "add_embedding"]
    /\ UNCHANGED <<up_chunks, up_embeddings, up_k, seen, uploadFrame>>

\* db.add(chunk); db.flush()
AddChunk(u) ==
    /\ upc[u] = "add_chunk"
    /\ tx' = [tx EXCEPT ![u].chunks = @ \cup
                 {[paper_id |-> u,
                   chunk_index |-> Zip(up_chunks[u], up_embeddings[u])[up_k[u] + 1][1]]}]
    /\ upc' = [upc EXCEPT ![u] = "add_embedding"]
    /\ UNCHANGED <<db, up_chunks, up_embeddings, up_k, seen, uploadFrame>>

\* db.add(embedding)
AddEmbedding(u) ==
    /\ upc[u] = "add_embedding"
    /\ LET pair == Zip(up_chunks[u], up_embeddings[u])[up_k[u] + 1]
       IN  tx' = [tx EXCEPT ![u].embeddings = @ \cup
                     {[chunk |-> [paper_id |-> u, chunk_index |-> pair[1]],
                       embedding |-> pair[2]]}]
    /\ up_k' = [up_k EXCEPT ![u] = @ + 1]
    /\ upc' = [upc EXCEPT ![u] = LoopOrCommit(u, up_k[u] + 1)]
    /\ UNCHANGED <<db, up_chunks, up_embeddings, seen, uploadFrame>>

\* db.commit(): the rows of the transaction become visible together
Commit(u) ==
    /\ upc[u] = "commit"
    /\ db' = [papers     |-> db.papers \cup tx[u].papers,
              chunks     |-> db.chunks \cup tx[u].chunks,
              embeddings |-> db.embeddings \cup tx[u].embeddings]
    /\ tx' = [tx EXCEPT ![u] = NoRows]
    /\ upc' = [upc EXCEPT ![u] = "done"]
    /\ UNCHANGED <<up_chunks, up_embeddings, up_k, seen, uploadFrame>>

\* a flush or the commit raises: get_db_session rolls back and re-raises
DbFails(u) ==
    /\ upc[u] \in {"add_paper", "add_chunk", "add_embedding", "commit"}
    /\ tx' = [tx EXCEPT ![u] = NoRows]
    /\ upc' = [upc EXCEPT ![u] = "failed"]
    /\ UNCHANGED <<db, up_chunks, up_embeddings, up_k, seen, uploadFrame>>

\* a statement of another session (the retrieval join, get_papers,
\* get_paper_stats) reads the committed rows
ReaderReads ==
    /\ seen' = db
    /\ seen # db
    /\ UNCHANGED <<db, tx, upc, up_chunks, up_embeddings, up_k, uploadFrame>>

----------------------------------------------------------------------------
(* Compression service: CompressionService.compress_context and             *)
(* _call_scaledown_api.  A JSON value is a record tagged by its type t;     *)
(* a key that is not in an object reads as Absent.                          *)

Absent    == [t |-> "absent"]
JsonNull  == [t |-> "null"]
JsonStr(x)  == [t |-> "str", s |-> x]
JsonBool(b) == [t |-> "bool", b |-> b]
\* an object with the keys compressed_prompt and content (either may be Absent)
JsonItem(cp, ct) == [t |-> "dict", compressed_prompt |-> cp, content |-> ct]
JsonList(items)  == [t |-> "list", items |-> items]

\* Python truth value of dict.get(key): a missing key gives None
Truthy(v) ==
    \/ v.t = "str" /\ v.s # <<>>
    \/ v.t = "bool" /\ v.b
    \/ v.t = "dict"
    \/ v.t = "list" /\ v.items # <<>>

\* a or b
PyOr(a, b) == IF Truthy(a) THEN a ELSE b

Raised(exc)  == [raised |-> TRUE, exc |-> exc]
Returned(v)  == [raised |-> FALSE, value |-> v]

\* step 3 and step 4 of the response handling: the root-level keys, then
\* ValueError("Could not find text in ScaleDown response")
RootLevel(result) ==
    IF Truthy(result.compressed_prompt) THEN Returned(result.compressed_prompt)
    ELSE IF Truthy(result.content) THEN Returned(result.content)
    ELSE Raised("ValueError")

\* _call_scaledown_api, from client.post on
call_scaledown_api(response) ==
    IF response.kind = "connect_error" THEN Raised("ConnectError")
    ELSE IF response.kind = "http_error" THEN Raised("HTTPStatusError")
    ELSE IF response.kind = "bad_json" THEN Raised("JSONDecodeError")
    ELSE LET result == response.body IN
        IF result.detail # Absent THEN Raised("ValueError")
        ELSE IF result.successful = JsonBool(FALSE) /\ ~Truthy(result.partially_successful)
             THEN Raised("ValueError")
        ELSE IF result.results.t = "dict"
             THEN IF result.results.compressed_prompt # Absent
                      THEN Returned(result.results.compressed_prompt)
                  ELSE IF result.results.content # Absent
                      THEN Returned(result.results.content)
                  ELSE RootLevel(result)
        ELSE IF result.results.t = "list" /\ Len(result.results.items) > 0
             THEN LET first_item == result.results.items[1] IN
                  IF first_item.t = "dict"
                  THEN LET val == PyOr(first_item.compressed_prompt, first_item.content)
                       IN  IF Truthy(val) THEN Returned(val) ELSE RootLevel(result)
                  ELSE IF first_item.t = "str" THEN Returned(first_item)
                  ELSE RootLevel(result)
        ELSE RootLevel(result)

Separator == <<"\n", "\n", "-", "-", "-", "\n", "\n">>

\* "\n\n---\n\n".join(chunks)
RECURSIVE join_chunks(_)
join_chunks(cs) ==
    IF cs = <<>> THEN <<>>
    ELSE IF Len(cs) = 1 THEN cs[1]
    ELSE cs[1] \o Separator \o join_chunks(Tail(cs))

\* the logger.info line of the try block: len(compressed) / len(context)
LogRatio(compressed, context) ==
    IF compressed.t \notin {"str", "dict", "list"} THEN Raised("TypeError")
    ELSE IF context = <<>> THEN Raised("ZeroDivisionError")
    ELSE Returned(compressed)

\* compress_context without the last handler "except Exception": only
\* ConnectError and HTTPStatusError are answered with the fallback
compress_context_two_handlers(cs, response) ==
    IF cs = <<>>
    THEN [raised |-> FALSE, value |-> JsonStr(<<>>), api_called |-> FALSE, api_failed |-> FALSE]
    ELSE LET context == join_chunks(cs)
             called  == call_scaledown_api(response)
             tried   == IF called.raised THEN called ELSE LogRatio(called.value, context)
         IN  IF ~tried.raised
             THEN [raised |-> FALSE, value |-> tried.value,
                   api_called |-> TRUE, api_failed |-> FALSE]
             ELSE IF tried.exc \in {"ConnectError", "HTTPStatusError"}
             THEN [raised |-> FALSE, value |-> JsonStr(context),
                   api_called |-> TRUE, api_failed |-> called.raised]
             ELSE [raised |-> TRUE, exc |-> tried.exc, value |-> JsonNull,
                   api_called |-> TRUE, api_failed |-> called.raised]

\* compress_context: [raised, value | exc, api_called, api_failed]
compress_context(cs, response) ==
    IF cs = <<>>
    THEN [raised |-> FALSE, value |-> JsonStr(<<>>), api_called |-> FALSE, api_failed |-> FALSE]
    ELSE LET context == join_chunks(cs)
             called  == call_scaledown_api(response)
             tried   == IF called.raised THEN called ELSE LogRatio(called.value, context)
         IN  IF ~tried.raised
             THEN [raised |-> FALSE, value |-> tried.value,
                   api_called |-> TRUE, api_failed |-> FALSE]
             \* except httpx.ConnectError / httpx.HTTPStatusError / Exception
             ELSE [raised |-> FALSE, value |-> JsonStr(context),
                   api_called |-> TRUE, api_failed |-> called.raised]

----------------------------------------------------------------------------
(* Generation service: GenerationService.answer_question,                   *)
(* _assess_confidence and generate_summary.  Texts are sequences of         *)
(* characters; svc_model says what the Gemini call does.                    *)

\* str.lower()
lower(t) == [j \in 1..Len(t) |-> ToLower(t[j])]

\* phrase in answer
HasPhrase(t, phrase) ==
    \E k \in 0..(Len(t) - Len(phrase)) : SubSeq(t, k + 1, k + Len(phrase)) = phrase

not_found_phrases ==
    { <<"n", "o", "t", " ", "p", "r", "e", "s", "e", "n", "t">>,
      <<"n", "o", "t", " ", "f", "o", "u", "n", "d">>,
      <<"n", "o", "t", " ", "m", "e", "n", "t", "i", "o", "n", "e", "d">>,
      <<"d", "o", "e", "s", " ", "n", "o", "t", " ", "c", "o", "n", "t", "a", "i", "n">>,
      <<"n", "o", " ", "i", "n", "f", "o", "r", "m", "a", "t", "i", "o", "n">>,
      <<"c", "a", "n", "n", "o", "t", " ", "f", "i", "n", "d">>,
      <<"n", "o", "t", " ", "e", "x", "p", "l", "i", "c", "i", "t", "l", "y">>,
      <<"n", "o", "t", " ", "s", "t", "a", "t", "e", "d">> }

uncertain_phrases ==
    { <<"m", "a", "y">>,
      <<"m", "i", "g", "h", "t">>,
      <<"p", "o", "s", "s", "i", "b", "l", "y">>,
      <<"i", "t", " ", "s", "e", "e", "m", "s">>,
      <<"a", "p", "p", "e", "a", "r", "s", " ", "t", "o">>,
      <<"u", "n", "c", "l", "e", "a", "r">>,
      <<"n", "o", "t", " ", "c", "e", "r", "t", "a", "i", "n">> }

assess_confidence(answer_text) ==
    LET lower_answer == lower(answer_text) IN
    IF \E phrase \in not_found_phrases : HasPhrase(lower_answer, phrase) THEN "not_found"
    ELSE IF \E phrase \in uncertain_phrases : HasPhrase(lower_answer, phrase) THEN "medium"
    ELSE "high"

\* f"I apologize, but I encountered an error generating a response: {e}"
ApologyPrefix ==
    <<"I", " ", "a", "p", "o", "l", "o", "g", "i", "z", "e", ",", " ", "b", "u", "t", " ", "I", " ", "e", "n", "c", "o", "u", "n", "t", "e", "r", "e", "d", " ", "a", "n", " ", "e", "r", "r", "o", "r", " ", "g", "e", "n", "e", "r", "a", "t", "i", "n", "g", " ", "a", " ", "r", "e", "s", "p", "o", "n", "s", "e", ":", " ">>

\* f"Failed to generate summary: {e}"
FailedPrefix ==
    <<"F", "a", "i", "l", "e", "d", " ", "t", "o", " ", "g", "e", "n", "e", "r", "a", "t", "e", " ", "s", "u", "m", "m", "a", "r", "y", ":", " ">>

\* answer_question whose handler returns str(e) as the text
generation_answer_question_bare(context, q, chunk_ids, model) ==
    IF model.kind = "text"
    THEN [raised |-> FALSE, text |-> strip(model.text), chunk_ids |-> chunk_ids,
          confidence |-> assess_confidence(strip(model.text))]
    ELSE [raised |-> FALSE, text |-> model.message,
          chunk_ids |-> chunk_ids, confidence |-> "not_found"]

\* GenerationService.answer_question(context, question, chunk_ids); the
\* prompt is built before the try block and the model call, response.text
\* and the assessment run inside it
generation_answer_question(context, q, chunk_ids, model) ==
    IF model.kind = "text"
    THEN [raised |-> FALSE, text |-> strip(model.text), chunk_ids |-> chunk_ids,
          confidence |-> assess_confidence(strip(model.text))]
    ELSE [raised |-> FALSE, text |-> ApologyPrefix \o model.message,
          chunk_ids |-> chunk_ids, confidence |-> "not_found"]

\* GenerationService.generate_summary(text, summary_type)
generate_summary(t, summary_type, model) ==
    IF model.kind = "text"
    THEN [raised |-> FALSE, text |-> strip(model.text)]
    ELSE [raised |-> FALSE, text |-> FailedPrefix \o model.message]

----------------------------------------------------------------------------
(* Calls of the two services on their own                                   *)

MaxSvcChunks == 2     \* longest chunk list given to compress_context

JsonValues == {Absent, JsonNull, JsonStr(<<>>), JsonStr(<<"z">>)}

\* the "results" values tried: none, an object, and lists
ResultsValues ==
    {Absent, JsonList(<<>>), JsonList(<<JsonStr(<<>>)>>), JsonList(<<JsonStr(<<"z">>)>>),
     JsonList(<<JsonNull>>)}
    \cup {JsonItem(cp, ct) : cp \in JsonValues, ct \in JsonValues}
    \cup {JsonList(<<JsonItem(cp, ct)>>) : cp \in JsonValues, ct \in {Absent, JsonStr(<<"z">>)}}

Bodies ==
    [detail : {Absent, JsonStr(<<"e">>)},
     successful : {Absent, JsonBool(TRUE), JsonBool(FALSE)},
     partially_successful : {Absent, JsonBool(TRUE)},
     results : ResultsValues,
     compressed_prompt : {Absent, JsonStr(<<>>), JsonStr(<<"z">>)},
     content : {Absent, JsonStr(<<"z">>)}]

Responses ==
    {[kind |-> "connect_error"], [kind |-> "http_error"], [kind |-> "bad_json"]}
    \cup {[kind |-> "json", body |-> b] : b \in Bodies}

ChunkContents == {<<>>, <<"a">>, <<"b", "c">>}
ChunkLists == UNION {[1..n -> ChunkContents] : n \in 0..MaxSvcChunks}

\* what the model call does: a response text, or an exception with a
\* message (raised by generate_content, or by response.text when the
\* response has no text part)
ModelOutcomes ==
    {[kind |-> "text", text |-> x] :
        x \in { <<"Y", "e", "s", ".">>,
              <<" ", "I", "t", " ", "M", "A", "Y", " ", "b", "e", ".", "\n">>,
              <<"N", "o", "t", " ", "F", "o", "u", "n", "d">>,
              <<>>,
              <<"a", "p", "p", "e", "a", "r", "s", " ", "t", "o", " ", "b", "e", " ", "n", "o", "t", " ", "s", "t", "a", "t", "e", "d">> }}
    \cup {[kind |-> "raise", message |-> m] : m \in { <<"A", "P", "I", " ", "E", "r", "r", "o", "r">>, <<>>, <<"n", "o", "t", " ", "f", "o", "u", "n", "d">> }}

NoOutcome == [raised |-> FALSE]

SvcIdle ==
    /\ svc = "" /\ svc_chunks = <<>> /\ svc_response = [kind |-> "none"]
    /\ svc_chunk_ids = <<>> /\ svc_model = [kind |-> "none"]
    /\ svc_out = NoOutcome /\ spc = "idle"

SvcInit ==
    /\ \/ /\ svc = "compress_context"
          /\ svc_chunks \in ChunkLists
          /\ svc_response \in Responses
          /\ svc_chunk_ids = <<>> /\ svc_model = [kind |-> "none"]
       \/ /\ svc \in {"answer_question", "generate_summary"}
          /\ svc_chunks = <<>> /\ svc_response = [kind |-> "none"]
          /\ svc_chunk_ids \in (IF svc = "answer_question"
                                THEN {<<>>, <<1>>, <<2, 1>>} ELSE {<<>>})
          /\ svc_model \in ModelOutcomes
    /\ svc_out = NoOutcome
    /\ spc = "called"

CompressContext ==
    /\ spc = "called" /\ svc = "compress_context"
    /\ svc_out' = compress_context(svc_chunks, svc_response)
    /\ spc' = "done"
    /\ UNCHANGED <<svc, svc_chunks, svc_response, svc_chunk_ids, svc_model, svcFrame>>

AnswerQuestion ==
    /\ spc = "called" /\ svc = "answer_question"
    /\ svc_out' = generation_answer_question(<<"c">>, <<"q">>, svc_chunk_ids, svc_model)
    /\ spc' = "done"
    /\ UNCHANGED <<svc, svc_chunks, svc_response, svc_chunk_ids, svc_model, svcFrame>>

GenerateSummary ==
    /\ spc = "called" /\ svc = "generate_summary"
    /\ \E summary_type \in {"abstract", "section", "keypoints"} :
           svc_out' = generate_summary(<<"c">>, summary_type, svc_model)
    /\ spc' = "done"
    /\ UNCHANGED <<svc, svc_chunks, svc_response, svc_chunk_ids, svc_model, svcFrame>>

----------------------------------------------------------------------------
(* Library: delete_paper and delete_all_papers of pages/1_Upload_Papers.py  *)
(* over the tables papers, chunks JOIN embeddings (rows), summaries and     *)
(* query_cache, and the summary cache of pages/3_View_Summaries.py.  Every   *)
(* child table has a foreign key to papers.id with ON DELETE CASCADE.  Each  *)
(* operation is one database transaction (the summary request: one after    *)
(* the other in one Streamlit run).                                         *)

MaxLibOps == 3     \* deletions, saves and summary requests in one behaviour

SummaryTypes   == {"abstract", "key_points"}
SummaryTexts   == {"summary A", "summary B"}
\* generate_summary's return value when the model call raised
SummaryFailure == "Failed to generate summary: e"
NoSummary      == "none"

LibOp(op, p, ty, content, existed, removed) ==
    [op |-> op, paper_id |-> p, summary_type |-> ty, content |-> content,
     existed |-> existed, removed |-> removed]
NoOp == LibOp("none", "", "", "", FALSE, <<0, 0, 0>>)

LibIdle ==
    /\ papers = PaperIds
    /\ summaries = <<>>
    /\ deleted = {}
    /\ latest = [pr \in PaperIds \X SummaryTypes |-> NoSummary]
    /\ lib_ops = 0
    /\ lib_last = NoOp

OfPaper(table, p) == SelectSeq(table, LAMBDA r : r.paper_id = p)
NotOfPaper(table, p) == SelectSeq(table, LAMBDA r : r.paper_id # p)

\* DeletePaper whose cascade leaves out the relationship query_cache
DeletePaperKeepingCache(p) ==
    /\ lib_ops < MaxLibOps
    /\ lib_ops' = lib_ops + 1
    /\ IF p \in papers
       THEN /\ papers' = papers \ {p}
            /\ rows' = NotOfPaper(rows, p)
            /\ summaries' = NotOfPaper(summaries, p)
            /\ query_cache' = query_cache
            /\ deleted' = deleted \cup {p}
            /\ latest' = [pr \in PaperIds \X SummaryTypes |->
                             IF pr[1] = p THEN NoSummary ELSE latest[pr]]
       ELSE UNCHANGED <<papers, rows, summaries, query_cache, deleted, latest>>
    /\ lib_last' = LibOp("delete_paper", p, "", "", p \in papers,
                         <<Len(OfPaper(rows, p)), Len(OfPaper(summaries, p)),
                           Len(OfPaper(query_cache, p))>>)
    /\ UNCHANGED libFrame

\* delete_paper(paper_id): db.get; "if paper:" db.delete(paper) with the
\* cascades of Paper.chunks, Paper.summaries, Paper.query_cache and
\* Chunk.embedding; db.commit()
DeletePaper(p) ==
    /\ lib_ops < MaxLibOps
    /\ lib_ops' = lib_ops + 1
    /\ IF p \in papers
       THEN /\ papers' = papers \ {p}
            /\ rows' = NotOfPaper(rows, p)
            /\ summaries' = NotOfPaper(summaries, p)
            /\ query_cache' = NotOfPaper(query_cache, p)
            /\ deleted' = deleted \cup {p}
            /\ latest' = [pr \in PaperIds \X SummaryTypes |->
                             IF pr[1] = p THEN NoSummary ELSE latest[pr]]
       ELSE UNCHANGED <<papers, rows, summaries, query_cache, deleted, latest>>
    /\ lib_last' = LibOp("delete_paper", p, "", "", p \in papers,
                         <<Len(OfPaper(rows, p)), Len(OfPaper(summaries, p)),
                           Len(OfPaper(query_cache, p))>>)
    /\ UNCHANGED libFrame

\* delete_all_papers: db.execute(delete(Paper)), the database cascades to
\* chunks, embeddings, summaries and query_cache; db.commit()
DeleteAllPapers ==
    /\ lib_ops < MaxLibOps
    /\ lib_ops' = lib_ops + 1
    /\ papers' = {}
    /\ rows' = <<>>
    /\ summaries' = <<>>
    /\ query_cache' = <<>>
    /\ deleted' = deleted \cup papers
    /\ latest' = [pr \in PaperIds \X SummaryTypes |-> NoSummary]
    /\ lib_last' = LibOp("delete_all_papers", "", "", "", papers # {},
                         <<Len(rows), Len(summaries), Len(query_cache)>>)
    /\ UNCHANGED libFrame

\* select(Summary).where(paper_id == ..., summary_type == ...)
SummaryRowsFor(p, ty) ==
    SelectSeq(summaries, LAMBDA r : r.paper_id = p /\ r.summary_type = ty)

\* save_summary that always takes the else branch: db.add of a new row
save_summary_adding(p, ty, content) ==
    IF p \notin papers THEN [raised |-> TRUE, table |-> summaries]
    ELSE [raised |-> FALSE,
          table  |-> Append(summaries,
                            [paper_id |-> p, summary_type |-> ty, content |-> content])]

\* save_summary(paper_id, summary_type, content): the table after the call,
\* and whether the call raised (MultipleResultsFound of scalar_one_or_none,
\* or IntegrityError of the commit when the paper does not exist)
save_summary(p, ty, content) ==
    IF Len(SummaryRowsFor(p, ty)) > 1 THEN [raised |-> TRUE, table |-> summaries]
    ELSE IF Len(SummaryRowsFor(p, ty)) = 1
    THEN [raised |-> FALSE,
          table  |-> [i \in 1..Len(summaries) |->
                         IF summaries[i].paper_id = p /\ summaries[i].summary_type = ty
                         THEN [summaries[i] EXCEPT !.content = content]
                         ELSE summaries[i]]]
    ELSE IF p \notin papers THEN [raised |-> TRUE, table |-> summaries]
    ELSE [raised |-> FALSE,
          table  |-> Append(summaries,
                            [paper_id |-> p, summary_type |-> ty, content |-> content])]

\* the save went through: remember its content as the last one of the pair
Saved(p, ty, content, out) ==
    /\ summaries' = out.table
    /\ latest' = IF out.raised THEN latest ELSE [latest EXCEPT ![<<p, ty>>] = content]

\* a call of save_summary
SaveSummary(p, ty, content) ==
    /\ lib_ops < MaxLibOps
    /\ lib_ops' = lib_ops + 1
    /\ Saved(p, ty, content, save_summary(p, ty, content))
    /\ lib_last' = LibOp("save_summary", p, ty, content,
                         Len(SummaryRowsFor(p, ty)) >= 1, <<0, 0, 0>>)
    /\ UNCHANGED <<papers, deleted, rows, query_cache, libFrame>>

\* get_cached_summary: the content of the single row, or None
get_cached_summary(p, ty) ==
    IF Len(SummaryRowsFor(p, ty)) = 1 THEN SummaryRowsFor(p, ty)[1].content ELSE NoSummary

\* a summary button of the page: "if cached:" show the cached summary, else
\* summary = generate_summary(...) (the model's text, or the failure text:
\* generate_summary never raises) and save_summary(id, type, summary)
RequestSummary(p, ty) ==
    /\ lib_ops < MaxLibOps
    /\ lib_ops' = lib_ops + 1
    /\ Len(SummaryRowsFor(p, ty)) <= 1
    /\ IF get_cached_summary(p, ty) # NoSummary
       THEN /\ lib_last' = LibOp("summary_hit", p, ty, get_cached_summary(p, ty),
                                 TRUE, <<0, 0, 0>>)
            /\ UNCHANGED <<summaries, latest>>
       ELSE \E summary \in SummaryTexts \cup {SummaryFailure} :
                /\ Saved(p, ty, summary, save_summary(p, ty, summary))
                /\ lib_last' = LibOp("summary_generated", p, ty, summary,
                                     FALSE, <<0, 0, 0>>)
    /\ UNCHANGED <<papers, deleted, rows, query_cache, libFrame>>

----------------------------------------------------------------------------
(* Idle values of the three components, and the chunker's specification     *)

ChunkIdle ==
    /\ text = <<>> /\ chunk_size = 0 /\ chunk_overlap = 0
    /\ chunks = <<>> /\ cpc = "idle"

RankIdle ==
    /\ rows = <<>> /\ query_vector = <<>> /\ top_k = 0 /\ scope = ""
    /\ results = <<>> /\ rpc = "idle"

MaxPieces    == 3   \* a text is at most this many pieces
MaxChunkSize == 3   \* largest chunk_size argument tried

\* the pieces the input texts are made of: sentences, white space, a line of
\* lower-case prose, a two-word sentence, a number prefix and a named heading
Pieces ==
    { <<"A","a",".">>,
      <<" ">>,
      <<"\n">>,
      <<"w","e"," ","d","o">>,
      <<"B","b"," ","c",".">>,
      <<"1","."," ">>,
      <<"\n","M","e","t","h","o","d","\n">> }

RECURSIVE Flatten(_)
Flatten(ps) == IF ps = <<>> THEN <<>> ELSE Head(ps) \o Flatten(Tail(ps))

Texts == {Flatten(ps) : ps \in UNION {[1..n -> Pieces] : n \in 0..MaxPieces}}

\* chunk_size 0 is the call that leaves the argument out; otherwise
\* 0 <= chunk_overlap < chunk_size as the interface requires
ChunkInit ==
    /\ text \in Texts
    /\ chunk_size \in 0..MaxChunkSize
    /\ chunk_overlap \in 0..(IF chunk_size = 0 THEN 0 ELSE chunk_size - 1)
    /\ chunks = <<>>
    /\ cpc = "called"

\* ChunkingService.chunk_text runs to its return
ChunkText ==
    /\ cpc = "called"
    /\ chunks' = chunk_text(text, chunk_size, chunk_overlap)
    /\ cpc' = "returned"
    /\ UNCHANGED <<text, chunk_size, chunk_overlap>>
    /\ UNCHANGED <<rankVars, cacheVars, otherVars>>

----------------------------------------------------------------------------
(* Claims about the chunker                                                 *)

ChunkDone == cpc = "returned"

IsSingleWord(t) == t # <<>> /\ \A j \in 1..Len(t) : ~IsSpace(t[j])

\* the text with every white-space character removed
RECURSIVE Squeeze(_)
Squeeze(t) ==
    IF t = <<>> THEN <<>>
    ELSE (IF IsSpace(Head(t)) THEN <<>> ELSE <<Head(t)>>) \o Squeeze(Tail(t))

Contains(hay, needle) ==
    \E k \in 0..(Len(hay) - Len(needle)) : SubSeq(hay, k + 1, k + Len(needle)) = needle

RECURSIVE AllContent(_)
AllContent(cs) == IF cs = <<>> THEN <<>> ELSE Head(cs).content \o AllContent(Tail(cs))

\* C1: for chunk_size > 0 and 0 <= overlap < chunk_size every returned chunk
\* has at most chunk_size tokens (stored and recounted), unless it is a
\* single word that alone has more than chunk_size tokens.
C1_BudgetRespected ==
    (ChunkDone /\ chunk_size > 0) =>
        \A i \in 1..Len(chunks) :
            \/ /\ chunks[i].token_count <= chunk_size
               /\ count_tokens(chunks[i].content) <= chunk_size
            \/ /\ IsSingleWord(chunks[i].content)
               /\ count_tokens(chunks[i].content) > chunk_size

\* C2: chunk_text("") returns the empty list, for every chunk_size and overlap.
C2_EmptyTextNoChunks ==
    (ChunkDone /\ text = <<>>) => chunks = <<>>

\* C3: every returned chunk stores token_count = count_tokens(content).
C3_TokenCountIsOwnCount ==
    ChunkDone =>
        \A i \in 1..Len(chunks) : chunks[i].token_count = count_tokens(chunks[i].content)

\* C4: the chunk_index values of the returned list are 0, 1, ..., n-1 in
\* list order.
C4_IndicesContiguous ==
    ChunkDone => \A i \in 1..Len(chunks) : chunks[i].chunk_index = i - 1

\* C4 witness: a list of three or more chunks from two sections, one section
\* emitted whole and the other split, the split one down to word level.
C4_Witness ==
    /\ ChunkDone
    /\ Len(chunks) >= 3
    /\ \E i, j \in 1..Len(chunks) : chunks[i].section_title # chunks[j].section_title
    /\ Len(detect_sections(text)) = 2
    /\ \E i \in 1..Len(chunks) : chunks[i].content \in {<<"B","b">>, <<"c",".">>}

\* C4 witness: sections are dropped as empty and the rest is still numbered.
C4_WitnessDropped ==
    /\ ChunkDone
    /\ Len(finditer(text, 1)) > Len(detect_sections(text))
    /\ Len(chunks) >= 1

\* C5: every sentence of the input occurs in the chunk contents (the spec's
\* "union of chunk contents": the contents joined in list order), white
\* space aside.
C5_EverySentenceCovered ==
    (ChunkDone /\ chunk_size > 0) =>
        \A k \in 1..Len(split_sentences(text)) :
            Contains(Squeeze(AllContent(chunks)), Squeeze(split_sentences(text)[k]))

\* the chunk_size and chunk_overlap the call asked for
CallSize == OrDefault(chunk_size, chunk_size_setting)
NoHeading == finditer(text, 1) = <<>>

C21_WitnessSplit ==
    /\ ChunkDone /\ NoHeading /\ count_tokens(text) > CallSize
    /\ Len(chunks) >= 2
    /\ \A i \in 1..Len(chunks) : chunks[i].section_title = NoTitle

\* the words of the section bodies, in order
RECURSIVE SectionWords(_)
SectionWords(sections) ==
    IF sections = <<>> THEN <<>>
    ELSE split(Head(sections).content) \o SectionWords(Tail(sections))

RECURSIVE ContentWords(_)
ContentWords(cs) ==
    IF cs = <<>> THEN <<>> ELSE split(Head(cs).content) \o ContentWords(Tail(cs))

\* C23: the sentence-window split seeds the next buffer by the overlap the
\* caller passed, for every 0 <= overlap < chunk_size: the returned chunks
\* are those of the chunk builder run with the caller's two values, and with
\* overlap 0 consecutive chunks share no sentence, so the chunks hold the
\* words of the section bodies once each, in order.
C23_OverlapIsCallersValue ==
    (ChunkDone /\ chunk_size > 0) =>
        /\ chunks = SectionLoop(detect_sections(text), [chunks |-> <<>>, chunk_index |-> 0],
                                chunk_size, chunk_overlap).chunks
        /\ chunk_overlap = 0 => ContentWords(chunks) = SectionWords(detect_sections(text))

\* the lines of the text: [a, b) for every maximal run without a newline
Lines(t) ==
    {<<a, b>> \in (1..(Len(t) + 1)) \X (1..(Len(t) + 1)) :
        /\ a <= b /\ AtBOL(t, a) /\ AtEOL(t, b)
        /\ \A j \in a..(b - 1) : ~IsNewline(t[j])}

IsWholeLine(t, title) ==
    \E ln \in Lines(t) : strip(SubSeq(t, ln[1], ln[2] - 1)) = title

\* C24: every section title is an entire line of the text, trimmed: each
\* heading match starts at the beginning of a line and ends at the end of
\* that same line, and every titled chunk carries such a line as its title.
C24_TitleIsWholeLine ==
    ChunkDone =>
        /\ \A k \in 1..Len(finditer(text, 1)) :
               <<finditer(text, 1)[k][1], finditer(text, 1)[k][2]>> \in Lines(text)
        /\ \A i \in 1..Len(chunks) :
               chunks[i].section_title = NoTitle \/ IsWholeLine(text, chunks[i].section_title)

HasLower(t) == \E j \in 1..Len(t) : t[j] \in LowerSet

\* the line is one of the named section names, optionally numbered: one of
\* the eleven named patterns matches at its start
IsNamedLine(t, a) == \E k \in 1..11 : section_patterns(t, a)[k] # NoMatch

BeginsWithNumberDot(t, a) ==
    LET d == RunEnd(t, a, IsDigit) IN d > a /\ d <= Len(t) /\ t[d] = "."

\* C25: a line that contains lower-case letters, is not a named section name
\* and does not begin with a number and a dot is never detected as a
\* heading: no heading match starts in it.
C25_LowerCaseLineIsBody ==
    ChunkDone =>
        \A ln \in Lines(text) :
            (/\ HasLower(SubSeq(text, ln[1], ln[2] - 1))
             /\ ~IsNamedLine(text, ln[1])
             /\ ~BeginsWithNumberDot(text, ln[1]))
            => \A k \in 1..Len(finditer(text, 1)) :
                   ~(finditer(text, 1)[k][1] \in ln[1]..(ln[2] - 1))

\* the passes of the sentence loop that take the branch
\* "if sentence_tokens > chunk_size", each with the loop state before and after
RECURSIVE LongSentenceSteps(_, _, _, _, _)
LongSentenceSteps(sentences, st, title, size, overlap) ==
    IF sentences = <<>> THEN <<>>
    ELSE With(SentenceStep(Head(sentences), st, title, size, overlap), LAMBDA st1 :
             (IF count_tokens(Head(sentences)) > size
              THEN <<[before |-> st, sentence |-> Head(sentences), after |-> st1]>>
              ELSE <<>>)
             \o LongSentenceSteps(Tail(sentences), st1, title, size, overlap))

\* those passes over all sections of the text that chunk_text splits
RECURSIVE LongStepsOf(_, _, _)
LongStepsOf(sections, size, overlap) ==
    IF sections = <<>> THEN <<>>
    ELSE (IF count_tokens(Head(sections).content) > size
          THEN LongSentenceSteps(split_sentences(Head(sections).content),
                                 [chunks |-> <<>>, current_chunk |-> <<>>,
                                  current_tokens |-> 0, chunk_index |-> 0],
                                 Head(sections).title, size, overlap)
          ELSE <<>>)
         \o LongStepsOf(Tail(sections), size, overlap)

LongSteps ==
    LongStepsOf(detect_sections(text), CallSize,
                OrDefault(chunk_overlap, chunk_overlap_setting))

PendingFlushedFirst(step) ==
    step.before.current_chunk # <<>> =>
        /\ Len(step.after.chunks) > Len(step.before.chunks)
        /\ step.after.chunks[Len(step.before.chunks) + 1].content
               = strip(join(step.before.current_chunk))

WordsPartitioned(step) ==
    LET nb    == Len(step.before.chunks)
        first == nb + (IF step.before.current_chunk # <<>> THEN 1 ELSE 0)
    IN  /\ SubSeq(step.after.chunks, 1, nb) = step.before.chunks
        /\ ContentWords(SubSeq(step.after.chunks, first + 1, Len(step.after.chunks)))
               \o step.after.current_chunk = split(step.sentence)
        /\ step.after.current_chunk # <<>>

\* C26: when a sentence alone has more than chunk_size tokens, the pending
\* buffer (if any) is flushed as a chunk of its own before any word of the
\* sentence, and the word sub-chunks flushed during the split followed by
\* the residual word group that seeds the next buffer are the sentence's
\* words in order, none repeated or dropped.
C26_LongSentenceWordsPartitioned ==
    ChunkDone =>
        \A k \in 1..Len(LongSteps) :
            PendingFlushedFirst(LongSteps[k]) /\ WordsPartitioned(LongSteps[k])

\* a long sentence met with a pending buffer and cut into two word groups
C26_Witness ==
    /\ ChunkDone
    /\ \E k \in 1..Len(LongSteps) :
           /\ LongSteps[k].before.current_chunk # <<>>
           /\ Len(LongSteps[k].after.chunks) >= Len(LongSteps[k].before.chunks) + 2
           /\ Len(split(LongSteps[k].sentence)) = 2
           /\ Len(LongSteps[k].after.current_chunk) = 1
    /\ Len(chunks) >= 3

----------------------------------------------------------------------------
(* Claims about the ranker                                                  *)

RankDone == rpc = "returned"

\* the rows of the call's scope whose similarity denominator is not zero
ValidCandidates ==
    {i \in 1..Len(rows) :
        /\ scope = "" \/ rows[i].paper_id = scope
        /\ SumProd(rows[i].embedding, rows[i].embedding) # 0
        /\ SumProd(query_vector, query_vector) # 0}

ResultIds == {results[i].chunk_id : i \in 1..Len(results)}

\* C9: the result is sorted by similarity, non-increasing; its length is
\* min(k, number of candidates with a non-zero denominator); and no
\* candidate left out scores strictly higher than one that is in.
C9_SortedTopK ==
    RankDone =>
        /\ \A i \in 1..Len(results) : \A j \in (i + 1)..Len(results) :
               ~SimLess(results[i].similarity_score, results[j].similarity_score)
        /\ Len(results) = (IF top_k < Cardinality(ValidCandidates)
                           THEN top_k ELSE Cardinality(ValidCandidates))
        /\ Cardinality(ResultIds) = Len(results)
        /\ ResultIds \subseteq ValidCandidates
        /\ \A c \in ValidCandidates \ ResultIds : \A i \in 1..Len(results) :
               ~SimLess(results[i].similarity_score,
                        Similarity(rows[c].embedding, query_vector))

\* C9 witness: the limit cuts candidates of different scores
C9_Witness ==
    /\ RankDone
    /\ Len(results) = 2
    /\ Cardinality(ValidCandidates) = 3
    /\ SimLess(results[2].similarity_score, results[1].similarity_score)
    /\ \E c \in ValidCandidates \ ResultIds :
           SimLess(Similarity(rows[c].embedding, query_vector), results[2].similarity_score)

\* the example of the claim: A = [1,0], B = [0,0], query [1,0], k = 5
ExampleAB ==
    /\ rows = <<[id |-> 1, paper_id |-> "p1", embedding |-> <<1, 0>>],
                [id |-> 2, paper_id |-> "p1", embedding |-> <<0, 0>>]>>
    /\ query_vector = <<1, 0>>
    /\ top_k = 5
    /\ scope = ""

\* C10: a candidate whose vector is all zeros, and every candidate when the
\* query is all zeros, is never in the result; for A = [1,0], B = [0,0],
\* query [1,0] and k = 5 the result is [A] with score 1.
C10_ZeroVectorsExcluded ==
    RankDone =>
        /\ \A i \in 1..Len(results) :
               /\ \E c \in 1..Len(rows) :
                      /\ rows[c].id = results[i].chunk_id
                      /\ \E d \in 1..Len(rows[c].embedding) : rows[c].embedding[d] # 0
               /\ \E d \in 1..Len(query_vector) : query_vector[d] # 0
        /\ ExampleAB =>
               /\ Len(results) = 1
               /\ results[1].chunk_id = 1
               /\ SimIsOne(results[1].similarity_score)

\* C10 witness: the example has run
C10_Witness == RankDone /\ ExampleAB /\ Len(results) = 1

\* C10 witness: a zero query vector against stored non-zero vectors
C10_WitnessZeroQuery ==
    /\ RankDone
    /\ query_vector = <<0, 0>>
    /\ \E c \in 1..Len(rows) : rows[c].embedding # <<0, 0>>
    /\ results = <<>>

SimEq(x, y) == ~SimLess(x, y) /\ ~SimLess(y, x)

\* C11: valid candidates of equal similarity come in storage order, the
\* earlier one first, in the result and across the top-k cut (chunk ids are
\* the storage positions), so the result is a function of query and corpus.
C11_TiesInStorageOrder ==
    RankDone =>
        /\ \A i \in 1..Len(results) : \A j \in (i + 1)..Len(results) :
               SimEq(results[i].similarity_score, results[j].similarity_score)
                   => results[i].chunk_id < results[j].chunk_id
        /\ \A c \in ValidCandidates \ ResultIds : \A i \in 1..Len(results) :
               SimEq(results[i].similarity_score,
                     Similarity(rows[c].embedding, query_vector))
                   => results[i].chunk_id < c

\* C12: every returned match has a similarity score in [0, 1]:
\* 0 <= dot and dot^2 <= den2, the score being dot / sqrt(den2).
C12_ScoreInUnitInterval ==
    RankDone =>
        \A i \in 1..Len(results) :
            /\ results[i].similarity_score.dot >= 0
            /\ results[i].similarity_score.dot * results[i].similarity_score.dot
                   <= results[i].similarity_score.den2

\* the rows of any paper whose similarity denominator is not zero
ValidOfAllPapers ==
    {i \in 1..Len(rows) :
        /\ SumProd(rows[i].embedding, rows[i].embedding) # 0
        /\ SumProd(query_vector, query_vector) # 0}

\* C13: with a paper_id every returned match is a chunk of that paper;
\* without one the result is a top-k of the chunks of all papers.
C13_ScopedToPaper ==
    RankDone =>
        /\ scope # "" =>
               \A i \in 1..Len(results) :
                   /\ results[i].paper_id = scope
                   /\ rows[results[i].chunk_id].paper_id = scope
        /\ scope = "" =>
               /\ ResultIds \subseteq ValidOfAllPapers
               /\ Len(results) = (IF top_k < Cardinality(ValidOfAllPapers)
                                  THEN top_k ELSE Cardinality(ValidOfAllPapers))
               /\ \A i \in 1..Len(results) :
                      results[i].paper_id = rows[results[i].chunk_id].paper_id
               /\ \A c \in ValidOfAllPapers \ ResultIds : \A i \in 1..Len(results) :
                      ~SimLess(results[i].similarity_score,
                               Similarity(rows[c].embedding, query_vector))

\* C13 witness: a scoped search leaves out a better chunk of another paper
C13_Witness ==
    /\ RankDone
    /\ scope = "p1"
    /\ Len(results) >= 1
    /\ \E c \in ValidOfAllPapers :
           /\ rows[c].paper_id = "p2"
           /\ SimLess(results[1].similarity_score,
                      Similarity(rows[c].embedding, query_vector))

\* C13 witness: an unscoped search returns chunks of both papers
C13_WitnessAllPapers ==
    /\ RankDone
    /\ scope = ""
    /\ {results[i].paper_id : i \in 1..Len(results)} = PaperIds

----------------------------------------------------------------------------
(* Claims about the answer cache gate                                       *)

\* prev and last are two calls in a row with the same question: neither
\* overlapped a call of another session
TwiceInARow ==
    /\ prev.kind # "none" /\ last.kind # "none"
    /\ prev.alone /\ last.alone
    /\ prev.question = last.question

\* C6: two calls in a row with the same question, the first of them not
\* itself served from the cache and both returning, cause exactly one
\* ranking and one generation in total, and the second reports cached = True.
C6_SecondCallFromCache ==
    (TwiceInARow /\ prev.kind \in {"no_info", "answered"} /\ last.kind # "raised") =>
        /\ prev.rank_calls + last.rank_calls = 1
        /\ prev.gen_calls + last.gen_calls = 1
        /\ last.cached

\* C6 as amended: when the first call retrieved at least one chunk (so it
\* went through generation and the cache store), the second call is a cache
\* hit with cached = True and runs neither ranking nor generation.
C6_SecondCallFromCacheAfterAnswer ==
    (TwiceInARow /\ prev.kind = "answered") =>
        /\ prev.rank_calls = 1 /\ prev.gen_calls = 1
        /\ last.kind = "hit" /\ last.cached
        /\ last.rank_calls = 0 /\ last.gen_calls = 0
        /\ last.answer = prev.answer

C6_Witness ==
    TwiceInARow /\ prev.kind = "answered" /\ last.kind = "hit"

\* C7: the query cache holds at most one row per question string.
C7_OneRowPerQuestion ==
    \A q \in Questions : Len(CacheRowsFor(q)) <= 1

\* C8: when the cache holds two or more rows for the question, the call
\* does not raise: it returns the answer of one of the rows as a cache hit.
C8_DuplicatesTolerated ==
    last.matched >= 2 =>
        /\ last.kind = "hit" /\ last.cached
        /\ \E i \in 1..Len(CacheRowsFor(last.question)) :
               CacheRowsFor(last.question)[i].answer = last.answer

InFlight == {"compress", "generate", "store"}
MissTrace == <<"lookup", "embed", "rank">>
FullTrace == <<"lookup", "embed", "rank", "compress", "generate", "store">>
ChunkIdsOf(ranked) == [i \in 1..Len(ranked) |-> ranked[i].chunk_id]

\* the state half of C19
NoMatchOutcome ==
    /\ last.kind = "no_info" =>
           /\ ~last.cached /\ last.confidence = "low"
           /\ last.answer = "no relevant information"
           /\ last.rank_calls = 1 /\ last.comp_calls = 0 /\ last.gen_calls = 0
           /\ last.trace = MissTrace
    /\ \A s \in Sessions :
           (pc[s] \in InFlight \/ comp_calls[s] > 0 \/ gen_calls[s] > 0)
               => retrieved[s] # <<>>
    /\ last.kind = "answered" => last.confidence # "low" /\ last.gen_calls = 1

\* the step half of C19: the call that ends with the no-information answer
\* leaves the query cache as it was
NoMatchWritesNothing ==
    (\E s \in Sessions : pc[s] = "retrieve" /\ pc'[s] = "idle" /\ last'.kind = "no_info")
        => query_cache' = query_cache

\* C19: when the ranker returns no match, the call returns normally with the
\* no-information answer at confidence "low" and cached = False, calls
\* neither compression nor generation, and writes nothing to the query
\* cache; only a non-empty result reaches compression and generation, whose
\* outcomes never carry confidence "low", so a generation failure
\* ("not_found") reads differently from the no-information answer.
C19_NoMatchIsNoInfo == []NoMatchOutcome /\ [][NoMatchWritesNothing]_vars

C19_Witness ==
    /\ last.kind = "no_info" /\ last.trace = MissTrace
    /\ last.confidence = "low" /\ last.comp_calls = 0 /\ last.gen_calls = 0

\* a generation failure that went through to the caller, next to C19_Witness
C19_WitnessGenerationFailure ==
    /\ last.kind = "answered" /\ last.answer = "error"
    /\ last.confidence = "not_found"

\* C20: on a cache miss with a non-empty retrieval the call runs, each once
\* and in this order: cache lookup, query embedding and ranking, compression
\* of the retrieved chunks in rank order, generation over what compression
\* returned, cache store.
C20_MissPipelineInOrder ==
    /\ \A s \in Sessions :
           /\ pc[s] = "retrieve" => trace[s] = <<"lookup">>
           /\ pc[s] = "compress" =>
                  /\ trace[s] = MissTrace
                  /\ rank_calls[s] = 1 /\ comp_calls[s] = 0 /\ gen_calls[s] = 0
           /\ pc[s] = "generate" =>
                  /\ trace[s] = Append(MissTrace, "compress")
                  /\ rank_calls[s] = 1 /\ comp_calls[s] = 1 /\ gen_calls[s] = 0
                  /\ OrderedDesc(retrieved[s])
                  /\ compressed_context[s].chunk_ids = ChunkIdsOf(retrieved[s])
           /\ pc[s] = "store" =>
                  /\ trace[s] = MissTrace \o <<"compress", "generate">>
                  /\ rank_calls[s] = 1 /\ comp_calls[s] = 1 /\ gen_calls[s] = 1
                  /\ gen_context[s] = compressed_context[s]
                  /\ gen_context[s].chunk_ids = ChunkIdsOf(retrieved[s])
    /\ last.kind = "answered" =>
           /\ last.trace = FullTrace
           /\ last.rank_calls = 1 /\ last.comp_calls = 1 /\ last.gen_calls = 1

C20_Witness ==
    /\ last.kind = "answered" /\ last.trace = FullTrace
    /\ \E i \in 1..Len(query_cache) :
           /\ query_cache[i].question = last.question
           /\ Len(query_cache[i].chunk_ids) = 2

----------------------------------------------------------------------------
(* Claims about the embedding service                                       *)

EmbedDone == epc = "returned"

\* the start of the batch that holds 1-based position i
BatchStartOf(i) == ((i - 1) \div batch_size) * batch_size

\* what the API embeds for input text t: the cleaned text, a blank one as " "
EmbeddingOf(t) ==
    ApiEmbedding(IF clean_text(t) = <<>> THEN <<" ">> ELSE clean_text(t))

C16_RaisesAfterRetries ==
    exhausted # {} => epc # "returned"

\* the delays slept after n failed attempts: retry_delay * i for i = 1..n
Backoff(n) == [i \in 1..n |-> retry_delay * i]

\* C27: a run of _embed_with_retry or of embed_query calls the API at most
\* max_retries = 3 times, returns at the first attempt that succeeds, sleeps
\* retry_delay * i after the i-th failed attempt for i < 3 only (rising
\* delays, none after the last attempt), and raises RuntimeError when every
\* attempt failed; embed_query on an empty or blank query raises ValueError
\* without a call of the API.
C27_BoundedRetryWithBackoff ==
    /\ epc \in {"seq", "query"} =>
           /\ attempt <= max_retries - 1
           /\ api_calls = attempt
           /\ sleeps = Backoff(attempt)
    /\ retry_out.result = "ok" =>
           /\ retry_out.calls \in 1..max_retries
           /\ retry_out.sleeps = Backoff(retry_out.calls - 1)
    /\ retry_out.result = "RuntimeError" =>
           /\ retry_out.calls = max_retries
           /\ retry_out.sleeps = Backoff(max_retries - 1)
    /\ retry_out.result = "ValueError" =>
           /\ entry = "embed_query" /\ clean_text(texts[1]) = <<>>
           /\ retry_out.calls = 0 /\ retry_out.sleeps = <<>>
    /\ \A i \in 1..(Len(sleeps) - 1) : sleeps[i] < sleeps[i + 1]
    /\ entry = "embed_query" =>
           /\ epc = "raised" =>
                  retry_out.result = (IF clean_text(texts[1]) = <<>> THEN "ValueError"
                                                                     ELSE "RuntimeError")
           /\ epc = "returned" => retry_out.result = "ok" /\ clean_text(texts[1]) # <<>>
           /\ epc = "query" => clean_text(texts[1]) # <<>>

\* embed_query gave up after three calls and two sleeps
C27_Witness ==
    /\ entry = "embed_query" /\ epc = "raised"
    /\ retry_out = RetryOut("RuntimeError", 3, <<retry_delay, 2 * retry_delay>>)

\* _embed_with_retry succeeded at its third attempt
C27_WitnessThirdAttempt ==
    /\ entry # "embed_query"
    /\ retry_out = RetryOut("ok", 3, <<retry_delay, 2 * retry_delay>>)

\* embed_query on a blank query
C27_WitnessBlankQuery ==
    /\ entry = "embed_query" /\ epc = "raised" /\ texts[1] = <<" ">>
    /\ retry_out = RetryOut("ValueError", 0, <<>>)

----------------------------------------------------------------------------
(* Claims about the upload                                                  *)

\* the rows of a view are whole: every chunk has exactly one embedding and
\* its paper, every embedding its chunk, and every paper all of its chunks
WholePapers(view) ==
    /\ \A c \in view.chunks :
           /\ Cardinality({e \in view.embeddings : e.chunk = c}) = 1
           /\ c.paper_id \in view.papers
    /\ \A e \in view.embeddings : e.chunk \in view.chunks
    /\ \A p \in view.papers :
           Cardinality({c \in view.chunks : c.paper_id = p}) = Len(up_chunks[p])

C15_WitnessRolledBack ==
    \E u \in Uploads :
        /\ upc[u] = "failed"
        /\ up_k[u] >= 1
        /\ db.papers # {}

----------------------------------------------------------------------------
(* Claims about the compression and generation services                     *)

SvcDone(name) == spc = "done" /\ svc = name

\* the first n chunks, each followed by the separator but the last
RECURSIVE JoinedUpTo(_, _)
JoinedUpTo(cs, n) ==
    IF n = 0 THEN <<>>
    ELSE IF n = 1 THEN cs[1]
    ELSE JoinedUpTo(cs, n - 1) \o <<"\n", "\n", "-", "-", "-", "\n", "\n">> \o cs[n]

\* the ScaleDown call failed: no connection, an error status, a body that
\* is not JSON, an error or unsuccessful body, or a body with no text
ResponseFailed(response) ==
    \/ response.kind \in {"connect_error", "http_error", "bad_json"}
    \/ /\ response.kind = "json"
       /\ \/ response.body.detail # Absent
          \/ /\ response.body.successful = JsonBool(FALSE)
             /\ response.body.partially_successful # JsonBool(TRUE)
          \/ /\ response.body.results \in {Absent, JsonList(<<>>)}
             /\ response.body.compressed_prompt \in {Absent, JsonStr(<<>>)}
             /\ response.body.content = Absent

\* C17: compress_context never raises; for an empty list it returns "" and
\* does not call the API; when the API call fails it returns the chunks
\* joined in input order with the separator.
C17_CompressNeverRaises ==
    SvcDone("compress_context") =>
        /\ ~svc_out.raised
        /\ svc_chunks = <<>> => (svc_out.value = JsonStr(<<>>) /\ ~svc_out.api_called)
        /\ svc_chunks # <<>> => svc_out.api_called
        /\ (svc_chunks # <<>> /\ (svc_out.api_failed \/ ResponseFailed(svc_response))) =>
               svc_out.value = JsonStr(JoinedUpTo(svc_chunks, Len(svc_chunks)))

\* C17 witness: a body without any text makes the call fail, and the two
\* chunks come back joined
C17_Witness ==
    /\ SvcDone("compress_context")
    /\ Len(svc_chunks) = 2 /\ svc_chunks[1] # svc_chunks[2]
    /\ svc_response.kind = "json"
    /\ ResponseFailed(svc_response) /\ svc_response.body.detail = Absent
    /\ svc_response.body.successful # JsonBool(FALSE)
    /\ svc_out.value = JsonStr(svc_chunks[1] \o Separator \o svc_chunks[2])

\* C18: answer_question never raises; when the model call fails the Answer
\* has confidence "not_found", the chunk_ids it was given, and a text that
\* wraps the exception message in the fixed sentence; generate_summary
\* returns a text starting with "Failed" instead of raising.
C18_GenerationNeverRaises ==
    /\ SvcDone("answer_question") =>
           /\ ~svc_out.raised
           /\ svc_out.chunk_ids = svc_chunk_ids
           /\ svc_model.kind = "raise" =>
                  /\ svc_out.confidence = "not_found"
                  /\ Len(svc_out.text) > Len(svc_model.message)
                  /\ svc_out.text # svc_model.message
                  /\ SubSeq(svc_out.text, 1, 11) = <<"I", " ", "a", "p", "o", "l", "o", "g", "i", "z", "e">>
                  /\ SubSeq(svc_out.text, Len(svc_out.text) - Len(svc_model.message) + 1,
                            Len(svc_out.text)) = svc_model.message
    /\ SvcDone("generate_summary") =>
           /\ ~svc_out.raised
           /\ svc_model.kind = "raise" =>
                  /\ SubSeq(svc_out.text, 1, 6) = <<"F", "a", "i", "l", "e", "d">>
                  /\ SubSeq(svc_out.text, Len(svc_out.text) - Len(svc_model.message) + 1,
                            Len(svc_out.text)) = svc_model.message

\* C18 witness: the model call raised with a message inside answer_question
C18_Witness ==
    /\ SvcDone("answer_question")
    /\ svc_model.kind = "raise" /\ svc_model.message # <<>>
    /\ svc_chunk_ids = <<2, 1>>

\* C18 witness: the model call raised inside generate_summary
C18_WitnessSummary ==
    /\ SvcDone("generate_summary")
    /\ svc_model.kind = "raise"

----------------------------------------------------------------------------
(* Claims about deletion and the summary cache                              *)

DeletedLeavesNothing ==
    \A p \in deleted :
        /\ p \notin papers
        /\ OfPaper(rows, p) = <<>>
        /\ OfPaper(summaries, p) = <<>>
        /\ OfPaper(query_cache, p) = <<>>

\* a retrieval that runs now returns no chunk of a deleted paper
RetrievalSkipsDeleted ==
    \A s \in Sessions :
        (pc[s] = "retrieve" /\ pc'[s] # "retrieve") =>
            \A i \in 1..Len(retrieved'[s]) : retrieved'[s][i].paper_id \notin deleted

\* delete_paper(p) leaves the rows of every other paper as they were
DeletePaperLeavesOthers ==
    (lib_ops' # lib_ops /\ lib_last'.op = "delete_paper") =>
        /\ NotOfPaper(rows', lib_last'.paper_id) = NotOfPaper(rows, lib_last'.paper_id)
        /\ NotOfPaper(summaries', lib_last'.paper_id)
               = NotOfPaper(summaries, lib_last'.paper_id)
        /\ NotOfPaper(query_cache', lib_last'.paper_id)
               = NotOfPaper(query_cache, lib_last'.paper_id)
        /\ papers' \ {lib_last'.paper_id} = papers \ {lib_last'.paper_id}

\* a paper or a chunk goes away in a deletion only
OnlyDeletionRemoves ==
    (\/ ~(papers \subseteq papers')
     \/ \E i \in 1..Len(rows) : \A j \in 1..Len(rows') : rows'[j] # rows[i])
        => /\ lib_ops' # lib_ops
           /\ lib_last'.op \in {"delete_paper", "delete_all_papers"}

\* C22: once delete_paper(p) or delete_all_papers has committed, no chunk
\* (with its embedding), summary or cached-answer row with paper_id = p is
\* left and p is no paper any more, no later retrieval returns a chunk of p,
\* delete_paper leaves the rows of all other papers unchanged, and papers
\* and chunks disappear in these deletions only.
C22_DeletionCascades ==
    /\ []DeletedLeavesNothing
    /\ [][RetrievalSkipsDeleted /\ DeletePaperLeavesOthers /\ OnlyDeletionRemoves]_vars

\* delete_paper removed a chunk, a summary and a cached answer of its paper
\* and the other paper's chunk is still there
C22_Witness ==
    /\ lib_last.op = "delete_paper" /\ lib_last.existed
    /\ lib_last.removed[1] >= 1 /\ lib_last.removed[2] >= 1 /\ lib_last.removed[3] >= 1
    /\ rows # <<>>
    /\ lib_last.paper_id \in deleted

C22_WitnessDeleteAll ==
    /\ lib_last.op = "delete_all_papers"
    /\ lib_last.removed[1] >= 2 /\ lib_last.removed[3] >= 1
    /\ deleted = PaperIds

\* C28: after any sequence of save_summary calls made one after the other
\* the table holds at most one row per (paper_id, summary_type), and the
\* row's content is the content of the last save for that pair: a second
\* save for a pair overwrites, and rows of other pairs stay as they were.
C28_OneRowPerPairLatestContent ==
    \A pr \in PaperIds \X SummaryTypes :
        /\ Len(SummaryRowsFor(pr[1], pr[2])) <= 1
        /\ latest[pr] = NoSummary <=> SummaryRowsFor(pr[1], pr[2]) = <<>>
        /\ SummaryRowsFor(pr[1], pr[2]) # <<>> =>
               SummaryRowsFor(pr[1], pr[2])[1].content = latest[pr]

\* a save that found the pair's row, with the row of another pair beside it
C28_Witness ==
    /\ lib_last.op = "save_summary" /\ lib_last.existed
    /\ Len(summaries) = 2
    /\ get_cached_summary(lib_last.paper_id, lib_last.summary_type) = lib_last.content
    /\ \E i \in 1..2 : summaries[i].content # lib_last.content

\* C29: a failure output of generation is never stored in a cache: no
\* query_cache row holds the error answer and no summaries row holds the
\* failure text, so neither is served later as a cache hit.
C29_FailureNeverCached ==
    /\ \A i \in 1..Len(query_cache) : query_cache[i].answer # "error"
    /\ \A i \in 1..Len(summaries) : summaries[i].content # SummaryFailure
    /\ last.kind = "hit" => last.answer # "error"
    /\ lib_last.op = "summary_hit" => lib_last.content # SummaryFailure

\* C30: after a paper is deleted, no answer_question call returns a cached
\* answer whose recorded sources (chunk_refs) include that paper, be it the
\* row's primary paper or one of several source papers.
C30_NoCachedAnswerFromDeletedPaper ==
    [][\A s \in Sessions :
           (pc[s] = "lookup" /\ pc'[s] = "idle" /\ last'.kind = "hit") =>
               \A i \in 1..Len(CacheRowsFor(question[s])) :
                   CacheRowsFor(question[s])[i].paper_ids \cap deleted = {}]_vars

----------------------------------------------------------------------------
(* Specifications                                                           *)

InitChunk == SvcIdle /\ UploadIdle /\ ChunkInit /\ RankIdle /\ CacheInit /\ EmbedIdle /\ LibIdle
NextChunk == ChunkText
SpecChunk == InitChunk /\ [][NextChunk]_vars

InitRank == SvcIdle /\ UploadIdle /\ ChunkIdle /\ RankInit /\ CacheInit /\ EmbedIdle /\ LibIdle
NextRank == VectorSearch
SpecRank == InitRank /\ [][NextRank]_vars

Init ==
    /\ ChunkIdle
    /\ rows \in Corpora
    /\ query_vector = <<>> /\ top_k = 0 /\ scope = "" /\ results = <<>> /\ rpc = "idle"
    /\ CacheInit
    /\ EmbedIdle
    /\ UploadIdle
    /\ SvcIdle
    /\ LibIdle

Next ==
    \E s \in Sessions :
        \/ \E q \in Questions : Ask(s, q)
        \/ LookupMiss(s)
        \/ LookupHit(s)
        \/ LookupMultiple(s)
        \/ RetrieveEmbedFails(s)
        \/ RetrieveNone(s)
        \/ RetrieveSome(s)
        \/ Compress(s)
        \/ Generate(s)
        \/ Store(s)

Spec == Init /\ [][Next]_vars

InitEmbed == SvcIdle /\ UploadIdle /\ ChunkIdle /\ RankIdle /\ CacheInit /\ EmbedInit /\ LibIdle
NextEmbed ==
    \/ EmbedStart
    \/ BatchOk
    \/ BatchFails
    \/ SeqEmpty
    \/ SeqAttemptOk
    \/ SeqAttemptFails
    \/ SeqExhausted
    \/ QueryStart
    \/ QueryAttemptOk
    \/ QueryAttemptFails
    \/ QueryExhausted
SpecEmbed == InitEmbed /\ [][NextEmbed]_vars

InitUpload == SvcIdle /\ ChunkIdle /\ RankIdle /\ CacheInit /\ EmbedIdle /\ UploadInit /\ LibIdle
NextUpload ==
    \/ \E u \in Uploads :
           \/ ExtractFails(u)
           \/ ExtractChunkEmbed(u)
           \/ AddPaper(u)
           \/ AddChunk(u)
           \/ AddEmbedding(u)
           \/ Commit(u)
           \/ DbFails(u)
    \/ ReaderReads
SpecUpload == InitUpload /\ [][NextUpload]_vars

InitServices == ChunkIdle /\ RankIdle /\ CacheInit /\ EmbedIdle /\ UploadIdle /\ SvcInit /\ LibIdle
NextServices ==
    \/ CompressContext
    \/ AnswerQuestion
    \/ GenerateSummary
SpecServices == InitServices /\ [][NextServices]_vars

InitLibrary ==
    /\ ChunkIdle
    /\ rows \in Corpora
    /\ query_vector = <<>> /\ top_k = 0 /\ scope = "" /\ results = <<>> /\ rpc = "idle"
    /\ CacheInit
    /\ EmbedIdle
    /\ UploadIdle
    /\ SvcIdle
    /\ LibIdle

\* One session asks one question while papers are deleted and summaries
\* requested; with a single asker the cache never holds two rows for a
\* question, so LookupMultiple has no step here.
Librarian == CHOOSE s \in Sessions : TRUE
LibraryQuestion == CHOOSE q \in Questions : TRUE

NextLibrary ==
    \/ \E s \in {Librarian} :
           \/ \E q \in {LibraryQuestion} : Ask(s, q)
           \/ LookupMiss(s)
           \/ LookupHit(s)
           \/ RetrieveEmbedFails(s)
           \/ RetrieveNone(s)
           \/ RetrieveSome(s)
           \/ Compress(s)
           \/ Generate(s)
           \/ Store(s)
           \/ StoreFails(s)
    \/ \E p \in PaperIds :
           \/ DeletePaper(p)
           \/ \E ty \in {"abstract"} : RequestSummary(p, ty)
    \/ DeleteAllPapers

SpecLibrary == InitLibrary /\ [][NextLibrary]_vars

InitSummaries ==
    /\ ChunkIdle
    /\ rows \in Corpora
    /\ query_vector = <<>> /\ top_k = 0 /\ scope = "" /\ results = <<>> /\ rpc = "idle"
    /\ CacheInit
    /\ EmbedIdle
    /\ UploadIdle
    /\ SvcIdle
    /\ LibIdle

NextSummaries ==
    \/ \E p \in PaperIds :
           \/ DeletePaper(p)
           \/ \E ty \in SummaryTypes :
                  \/ \E content \in SummaryTexts : SaveSummary(p, ty, content)
                  \/ RequestSummary(p, ty)
    \/ DeleteAllPapers

SpecSummaries == InitSummaries /\ [][NextSummaries]_vars

====
